---- MODULE Spec2Model ----
(***************************************************************************)
(* A model of pst_to_eml's composition engine: the base64 transfer         *)
(* encoding, the encoded-word header encoder, the MIME writer and the      *)
(* EML composer (src/src/EmlWriter.ts, src/src/index.ts, src/src/utils.ts).*)
(*                                                                         *)
(* Text is modelled as a sequence of UTF-16 code units (what a JavaScript  *)
(* string is) and binary data as a sequence of bytes 0..255, so that the   *)
(* encoders are computed, never assumed.                                   *)
(***************************************************************************)
EXTENDS Integers, Sequences, FiniteSets, TLC

VARIABLES
    gen,       \* the state of one Base64TransferEncoding.applyUint8Array generator
    hdr,       \* one call of EncodeWordInBase64.encodeIfNeeded: its argument and result
    msg,       \* the message (IPSTMessage) a caller composes
    opts,      \* the MsgConverterOptions of the caller
    now,       \* the clock: what new Date() reads, in seconds
    uuidCount, \* how many identifiers uuidv4() has handed out
    runs,      \* the calls of toEmlStringFrom the caller has made, with their results
    card,      \* one call of toVCardStrFrom: the contact (IPSTContact) and the result
    task,      \* one call of toEmlStringFrom step by step: its frames and its outcome
    pair,      \* two calls of toEmlStringFrom in progress at once, step by step
    tree       \* one PRoot over a store: its closed flag, the folders the caller
               \* holds and the calls the caller has made

vars == <<gen, hdr, msg, opts, now, uuidCount, runs, card, task, pair, tree>>

(***************************************************************************)
(* Bounds of the model.                                                    *)
(***************************************************************************)
\* how many fields of a contact are set at most
MaxContactFields == 2

\* longest byte sequence enumerated exhaustively over ByteVals
MaxShortLen == 4
\* longest patterned byte sequence (long enough for two full default lines)
MaxLongLen == 112
\* longest header value enumerated over WordChars
MaxWordLen == 3
\* longest recipient list
MaxRecipients == 2
\* longest attachment list of the composed message
MaxAttachments == 1
\* deepest nesting of embedded messages
MaxDepth == 2
\* last reading of the clock
MaxClock == 1

(***************************************************************************)
(* Generic helpers on sequences.                                           *)
(***************************************************************************)
RECURSIVE SeqsUpTo(_, _)
SeqsUpTo(S, n) ==
    IF n = 0 THEN {<<>>}
    ELSE LET shorter == SeqsUpTo(S, n - 1)
         IN  shorter \cup {Append(s, e) : s \in {t \in shorter : Len(t) = n - 1}, e \in S}

\* the concatenation of chunks[lo..hi], by halves
RECURSIVE ConcatRange(_, _, _)
ConcatRange(chunks, lo, hi) ==
    IF lo > hi THEN <<>>
    ELSE IF lo = hi THEN chunks[lo]
    ELSE LET mid == (lo + hi) \div 2
         IN  ConcatRange(chunks, lo, mid) \o ConcatRange(chunks, mid + 1, hi)

\* chunks.join("")
Concat(chunks) == ConcatRange(chunks, 1, Len(chunks))

(***************************************************************************)
(* Base64TransferEncoding (src/src/EmlWriter.ts:10-56).                    *)
(***************************************************************************)
\* "ABCDEFGHIJKLMNOPQRSTUVWXYZabcdefghijklmnopqrstuvwxyz0123456789+/"
base64Table ==
    <<65, 66, 67, 68, 69, 70, 71, 72, 73, 74, 75, 76, 77, 78, 79, 80, 81, 82,
      83, 84, 85, 86, 87, 88, 89, 90, 97, 98, 99, 100, 101, 102, 103, 104, 105,
      106, 107, 108, 109, 110, 111, 112, 113, 114, 115, 116, 117, 118, 119,
      120, 121, 122, 48, 49, 50, 51, 52, 53, 54, 55, 56, 57, 43, 47>>

\* "="
PadChar == <<61>>

\* "\r\n"
CRLF == <<13, 10>>

\* base64Table[(word >> shift) & 0x3F]
Sextet(word, shift) == <<base64Table[((word \div (2 ^ shift)) % 64) + 1]>>

\* the branch 3 <= rest
Enc3(b0, b1, b2) ==
    LET word == b0 * 65536 + b1 * 256 + b2
    IN  Sextet(word, 18) \o Sextet(word, 12) \o Sextet(word, 6) \o Sextet(word, 0)

\* a slip in the 2-byte branch: the third sextet is taken at the wrong shift
Enc2Shifted(b0, b1) ==
    LET word == b0 * 65536 + b1 * 256
    IN  Sextet(word, 18) \o Sextet(word, 12) \o Sextet(word, 8) \o PadChar

\* the branch 2 === rest
Enc2(b0, b1) ==
    LET word == b0 * 65536 + b1 * 256
    IN  Sextet(word, 18) \o Sextet(word, 12) \o Sextet(word, 6) \o PadChar

\* the branch 1 === rest with one pad character
Enc1OnePad(b0) ==
    LET word == b0 * 65536
    IN  Sextet(word, 18) \o Sextet(word, 12) \o PadChar

\* the branch 1 === rest
Enc1(b0) ==
    LET word == b0 * 65536
    IN  Sextet(word, 18) \o Sextet(word, 12) \o PadChar \o PadChar

\* a wrap after 57 bytes (76 base64 characters) instead of 54
CutLinePer57 == 54 + 3

\* the default value of the parameter cutLinePer
DefaultCutLinePer == 54

\* const eol = (1 <= cutLinePer) ? "\r\n" : ""
Eol(cutLinePer) == IF 1 <= cutLinePer THEN CRLF ELSE <<>>

\* the generator right after it is created: nothing consumed, nothing yielded
B64Start(data, cutLinePer) ==
    [bytes |-> data, cut |-> cutLinePer, x |-> 0, nextLfAt |-> cutLinePer,
     line |-> <<>>, yielded |-> <<>>, done |-> FALSE]

\* one turn of the while (true) loop; the turn that breaks also runs the
\* trailing "if (line) yield line + eol" and ends the generator
B64Turn(s) ==
    LET rest  == Len(s.bytes) - s.x
        eol   == Eol(s.cut)
        group == IF 3 <= rest
                   THEN Enc3(s.bytes[s.x + 1], s.bytes[s.x + 2], s.bytes[s.x + 3])
                 ELSE IF rest = 2 THEN Enc2(s.bytes[s.x + 1], s.bytes[s.x + 2])
                 ELSE Enc1(s.bytes[s.x + 1])
        line  == s.line \o group
        x     == s.x + 3
    IN  IF s.done THEN s
        ELSE IF rest <= 0
          THEN [s EXCEPT !.done = TRUE,
                         !.yielded = IF s.line # <<>>
                                       THEN Append(s.yielded, s.line \o eol)
                                       ELSE s.yielded]
        ELSE IF eol # <<>> /\ s.nextLfAt <= x
          THEN [s EXCEPT !.x = x, !.line = <<>>,
                         !.yielded = Append(s.yielded, line \o eol),
                         !.nextLfAt = s.nextLfAt + s.cut]
        ELSE [s EXCEPT !.x = x, !.line = line]

\* n turns of the loop, one after the other
RECURSIVE B64Turns(_, _)
B64Turns(s, n) ==
    IF n = 0 THEN s
    ELSE IF n = 1 THEN B64Turn(s)
    ELSE LET half == B64Turns(s, n \div 2)
         IN  IF half.done THEN half ELSE B64Turns(half, n - (n \div 2))

\* the generator drained: a turn per group of three bytes and the turn that breaks
B64Run(s) == B64Turns(s, (Len(s.bytes) - s.x + 2) \div 3 + 1)

\* the chunks the generator yields when it is drained
applyUint8Array(data, cutLinePer) == B64Run(B64Start(data, cutLinePer)).yielded

(***************************************************************************)
(* TextEncoder.encode (src/src/EmlWriter.ts:8): a string, a sequence of    *)
(* UTF-16 code units, to UTF-8 bytes. A surrogate pair is one code point   *)
(* of four bytes; an unpaired surrogate is replaced by U+FFFD (EF BF BD).  *)
(***************************************************************************)
IsHighSurrogate(c) == c \in 55296..56319
IsLowSurrogate(c) == c \in 56320..57343

Utf8OfCodePoint(cp) ==
    IF cp < 128 THEN <<cp>>
    ELSE IF cp < 2048 THEN <<192 + cp \div 64, 128 + (cp % 64)>>
    ELSE IF cp < 65536
      THEN <<224 + cp \div 4096, 128 + ((cp \div 64) % 64), 128 + (cp % 64)>>
    ELSE <<240 + cp \div 262144, 128 + ((cp \div 4096) % 64),
           128 + ((cp \div 64) % 64), 128 + (cp % 64)>>

\* the bytes the code unit at position i contributes: a high surrogate right
\* before a low one carries the four bytes of the pair and that low one none
Utf8At(str, i) ==
    IF IsHighSurrogate(str[i]) /\ i < Len(str) /\ IsLowSurrogate(str[i + 1])
      THEN Utf8OfCodePoint(65536 + (str[i] - 55296) * 1024 + (str[i + 1] - 56320))
    ELSE IF IsLowSurrogate(str[i]) /\ i > 1 /\ IsHighSurrogate(str[i - 1])
      THEN <<>>
    ELSE IF IsHighSurrogate(str[i]) \/ IsLowSurrogate(str[i])
      THEN <<239, 191, 189>>
    ELSE Utf8OfCodePoint(str[i])

Utf8Encode(str) == Concat([i \in 1..Len(str) |-> Utf8At(str, i)])

\* Base64TransferEncoding.applyStringAsUtf8
applyStringAsUtf8(data, cutLinePer) == applyUint8Array(Utf8Encode(data), cutLinePer)

(***************************************************************************)
(* EncodeWordInBase64 (src/src/EmlWriter.ts:58-73).                        *)
(***************************************************************************)
\* "=?utf-8?B?"
EncodedWordOpen == <<61, 63, 117, 116, 102, 45, 56, 63, 66, 63>>

\* "?="
EncodedWordClose == <<63, 61>>

\* the class with the full stop let in as well
SafeCharsWithDot ==
    {32, 33, 35, 36, 37, 38, 64, 58, 45, 46, 47, 92, 95}
        \cup (65..90) \cup (97..122) \cup (48..57)

\* the character class [ !#\$%&@:\-\/\\_A-Za-z0-9]
SafeChars ==
    {32, 33, 35, 36, 37, 38, 64, 58, 45, 47, 92, 95}
        \cup (65..90) \cup (97..122) \cup (48..57)

\* /^[...]*$/.test(word): without the m flag, $ matches at the end of input only
MatchesSafe(word) == \A i \in 1..Len(word) : word[i] \in SafeChars

\* EncodeWordInBase64.encode
encode(word) ==
    EncodedWordOpen \o Concat(applyStringAsUtf8(word, 0)) \o EncodedWordClose

\* EncodeWordInBase64.encodeIfNeeded
encodeIfNeeded(word) == IF MatchesSafe(word) THEN word ELSE encode(word)

(***************************************************************************)
(* The text literals of the writer and the composer.                       *)
(***************************************************************************)
\* the string literals of EmlWriter.ts
sWriter ==
    \* "From"
    [From |-> <<70, 114, 111, 109>>,
     \* "To"
     To |-> <<84, 111>>,
     \* "Cc"
     Cc |-> <<67, 99>>,
     \* "Bcc"
     Bcc |-> <<66, 99, 99>>,
     \* "Subject"
     Subject |-> <<83, 117, 98, 106, 101, 99, 116>>,
     \* "Date"
     Date |-> <<68, 97, 116, 101>>,
     \* "Message-ID"
     MessageID |-> <<77, 101, 115, 115, 97, 103, 101, 45, 73, 68>>,
     \* "Content-Type"
     ContentType |-> <<67, 111, 110, 116, 101, 110, 116, 45, 84, 121, 112,
         101>>,
     \* "MIME-Version"
     MimeVersion |-> <<77, 73, 77, 69, 45, 86, 101, 114, 115, 105, 111, 110>>,
     \* "1.0"
     OneDotZero |-> <<49, 46, 48>>,
     \* "Content-Transfer-Encoding"
     ContentTransferEncoding |-> <<67, 111, 110, 116, 101, 110, 116, 45,
         84, 114, 97, 110, 115, 102, 101, 114, 45, 69, 110, 99, 111, 100,
         105, 110, 103>>,
     \* "Content-ID"
     ContentID |-> <<67, 111, 110, 116, 101, 110, 116, 45, 73, 68>>,
     \* ": "
     ColonSpace |-> <<58, 32>>,
     \* ", "
     CommaSpace |-> <<44, 32>>,
     \* "--"
     DashDash |-> <<45, 45>>,
     \* 'multipart/mixed; boundary="'
     MultipartMixed |-> <<109, 117, 108, 116, 105, 112, 97, 114, 116, 47,
         109, 105, 120, 101, 100, 59, 32, 98, 111, 117, 110, 100, 97, 114,
         121, 61, 34>>,
     \* '"'
     Quote |-> <<34>>,
     \* "base64"
     Base64 |-> <<98, 97, 115, 101, 54, 52>>,
     \* "<"
     Lt |-> <<60>>,
     \* ">"
     Gt |-> <<62>>,
     \* " <"
     SpaceLt |-> <<32, 60>>]

\* the string literals of toEmlStringFrom
sIndex ==
    \* "Content-Disposition"
    [ContentDisposition |-> <<67, 111, 110, 116, 101, 110, 116, 45, 68,
         105, 115, 112, 111, 115, 105, 116, 105, 111, 110>>,
     \* "text/html; charset=utf-8"
     TextHtml |-> <<116, 101, 120, 116, 47, 104, 116, 109, 108, 59, 32, 99,
         104, 97, 114, 115, 101, 116, 61, 117, 116, 102, 45, 56>>,
     \* "text/plain; charset=utf-8"
     TextPlain |-> <<116, 101, 120, 116, 47, 112, 108, 97, 105, 110, 59,
         32, 99, 104, 97, 114, 115, 101, 116, 61, 117, 116, 102, 45, 56>>,
     \* "7bit"
     SevenBit |-> <<55, 98, 105, 116>>,
     \* 'message/rfc822; name="'
     MessageRfc822 |-> <<109, 101, 115, 115, 97, 103, 101, 47, 114, 102,
         99, 56, 50, 50, 59, 32, 110, 97, 109, 101, 61, 34>>,
     \* 'application/octet-stream; name="'
     OctetStream |-> <<97, 112, 112, 108, 105, 99, 97, 116, 105, 111, 110,
         47, 111, 99, 116, 101, 116, 45, 115, 116, 114, 101, 97, 109, 59,
         32, 110, 97, 109, 101, 61, 34>>,
     \* 'attachment; filename="'
     AttachmentFilename |-> <<97, 116, 116, 97, 99, 104, 109, 101, 110,
         116, 59, 32, 102, 105, 108, 101, 110, 97, 109, 101, 61, 34>>,
     \* "undisclosed-recipients"
     Undisclosed |-> <<117, 110, 100, 105, 115, 99, 108, 111, 115, 101,
         100, 45, 114, 101, 99, 105, 112, 105, 101, 110, 116, 115>>,
     \* "unnamed"
     Unnamed |-> <<117, 110, 110, 97, 109, 101, 100>>,
     \* ".eml"
     DotEml |-> <<46, 101, 109, 108>>,
     \* "_b1"
     B1Prefix |-> <<95, 98, 49>>,
     \* "_b2"
     B2Prefix |-> <<95, 98, 50>>,
     \* "_"
     Underscore |-> <<95>>]

\* "Thu Jan 01 1970 00:00:0"
sDatePrefix ==
    <<84, 104, 117, 32, 74, 97, 110, 32, 48, 49, 32, 49, 57, 55, 48, 32, 48,
      48, 58, 48, 48, 58, 48>>

\* " GMT+0000 (Coordinated Universal Time)"
sDateSuffix ==
    <<32, 71, 77, 84, 43, 48, 48, 48, 48, 32, 40, 67, 111, 111, 114, 100,
      105, 110, 97, 116, 101, 100, 32, 85, 110, 105, 118, 101, 114, 115, 97,
      108, 32, 84, 105, 109, 101, 41>>

\* "00000000-0000-4000-8000-0000000000"
sUuidPrefix ==
    <<48, 48, 48, 48, 48, 48, 48, 48, 45, 48, 48, 48, 48, 45, 52, 48, 48,
      48, 45, 56, 48, 48, 48, 45, 48, 48, 48, 48, 48, 48, 48, 48, 48, 48>>


(***************************************************************************)
(* EmlWriter (src/src/EmlWriter.ts:75-224). Every operation is modelled by *)
(* the chunks it hands to the emitter, in order; the sink of a composition *)
(* is the sequence of those chunks.                                        *)
(***************************************************************************)
\* EmlWriter.encodeValue: the encoder toEmlStringFrom binds is encodeIfNeeded
encodeValue(value) == encodeIfNeeded(value)

\* EmlWriter.writeHeader
writeHeader(name, value) == <<name \o sWriter.ColonSpace \o value \o CRLF>>

\* EmlWriter.contentId
contentId(cid) == writeHeader(sWriter.ContentID, sWriter.Lt \o encodeValue(cid) \o sWriter.Gt)

\* the closing delimiter written like an opening one
endBoundaryUnclosed(boundary) == <<sWriter.DashDash \o boundary \o CRLF>>

\* EmlWriter.endBoundary
endBoundary(boundary) == <<sWriter.DashDash \o boundary \o sWriter.DashDash \o CRLF>>

\* EmlWriter.beginBoundary
beginBoundary(boundary) == <<sWriter.DashDash \o boundary \o CRLF>>

\* EmlWriter.newLine
newLine == <<CRLF>>

\* EmlWriter.contentTransferEncoding
contentTransferEncoding(type) == writeHeader(sWriter.ContentTransferEncoding, type)

\* EmlWriter.mimeVersion1
mimeVersion1 == writeHeader(sWriter.MimeVersion, sWriter.OneDotZero)

\* EmlWriter.contentTypeMultipartMixed
contentTypeMultipartMixed(boundary) ==
    writeHeader(sWriter.ContentType, sWriter.MultipartMixed \o encodeValue(boundary) \o sWriter.Quote)

\* EmlWriter.contentType
contentType(type) == writeHeader(sWriter.ContentType, type)

\* EmlWriter.messageId; an absent or empty id is <<>>
messageId(id) ==
    IF id # <<>> THEN writeHeader(sWriter.MessageID, encodeValue(id)) ELSE <<>>

\* EmlWriter.date
date(d) == writeHeader(sWriter.Date, encodeValue(d))

\* EmlWriter.subject
subject(s) == writeHeader(sWriter.Subject, encodeValue(s))

\* EmlWriter.writePerson; an absent or empty name or email is <<>>
writePerson(person) ==
    IF person.name # <<>> /\ person.email # <<>>
      THEN encodeValue(person.name) \o sWriter.SpaceLt \o person.email \o sWriter.Gt
    ELSE IF person.name # <<>> THEN encodeValue(person.name)
    ELSE IF person.email # <<>> THEN sWriter.Lt \o encodeValue(person.email) \o sWriter.Gt
    ELSE <<>>

\* the chunks of HeaderWriter.value for the persons from the index-th on
RECURSIVE HeaderValues(_, _)
HeaderValues(persons, index) ==
    IF persons = <<>> THEN <<>>
    ELSE (IF index # 0 THEN <<sWriter.CommaSpace>> ELSE <<>>)
         \o <<writePerson(Head(persons))>>
         \o HeaderValues(Tail(persons), index + 1)

\* EmlWriter.writePersons with beginHeader, value and end
writePersons(headerName, persons) ==
    IF Len(persons) = 0 THEN <<>>
    ELSE <<headerName \o sWriter.ColonSpace>> \o HeaderValues(persons, 0) \o <<CRLF>>

\* EmlWriter.to, cc, bcc, from
to(data) == writePersons(sWriter.To, data)
cc(data) == writePersons(sWriter.Cc, data)
bcc(data) == writePersons(sWriter.Bcc, data)
from(data) == writeHeader(sWriter.From, writePerson(data))

(***************************************************************************)
(* src/src/utils.ts.                                                       *)
(***************************************************************************)
\* a composer that leaves the To list as it is
noFallbackRecipients(array, fallback) == array

\* applyFallbackRecipients
applyFallbackRecipients(array, fallback) ==
    IF Len(array) = 0 THEN Append(array, fallback) ELSE array

\* the position after the last base-name character: trailing slashes dropped
\* (0 when the path has no base name)
RECURSIVE PathEnd(_, _)
PathEnd(path, i) ==
    IF i = 0 THEN 0
    ELSE IF path[i] = 47 THEN PathEnd(path, i - 1)
    ELSE i

\* the position of the first character of the base name that ends at end
RECURSIVE PathStartPart(_, _)
PathStartPart(path, i) ==
    IF i = 0 THEN 1
    ELSE IF path[i] = 47 THEN i + 1
    ELSE PathStartPart(path, i - 1)

\* node:path posix parse(path), its dir and name: the base name is the last
\* component; its extension starts at its last dot unless the base name has
\* no dot, has its only trailing dot run at its start, or is ".."
PathParse(path) ==
    LET end       == PathEnd(path, Len(path))
        startPart == IF end = 0 THEN 1 ELSE PathStartPart(path, end)
        base      == SubSeq(path, startPart, end)
        dots      == {i \in 1..Len(base) : base[i] = 46}
        lastDot   == IF dots = {} THEN 0 ELSE CHOOSE i \in dots : \A j \in dots : j <= i
        isAbs     == Len(path) > 0 /\ path[1] = 47
        noExt     == \/ lastDot = 0
                     \/ lastDot = 1
                     \/ (base = <<46, 46>> /\ ~(isAbs /\ startPart = 2))
        dir       == IF startPart > 2 THEN SubSeq(path, 1, startPart - 2)
                     ELSE IF isAbs THEN <<47>>
                     ELSE <<>>
    IN  [dir |-> dir,
         name |-> IF noExt THEN base ELSE SubSeq(base, 1, lastDot - 1)]

\* the file name left as it was
keepFileExtension(fileName, newExt) == fileName

\* changeFileExtension, with path.sep = "/"
changeFileExtension(fileName, newExt) ==
    LET parsed == PathParse(fileName)
    IN  (IF parsed.dir # <<>> THEN parsed.dir \o <<47>> ELSE <<>>)
        \o parsed.name \o newExt

\* convertToUint8Array: the bytes of the ArrayBuffer, none when it is absent
convertToUint8Array(fileData) == IF fileData # <<>> THEN fileData[1] ELSE <<>>

(***************************************************************************)
(* toEmlStringFrom and toEmlFrom (src/src/index.ts:271-457).               *)
(*                                                                         *)
(* A message is a record of the fields the composer reads. An absent       *)
(* string is <<>>; an absent Date, ArrayBuffer or embedded message is <<>> *)
(* and a present one is <<v>>. A Date is a number of seconds; clock is the *)
(* reading of new Date() and ctr counts the calls of uuidv4() so far.      *)
(***************************************************************************)
\* the recipientType values
MAPI_TO == 1
MAPI_CC == 2
MAPI_BCC == 3

\* Date.prototype.toString for the first ten seconds of 1970 in UTC
DateToString(t) == sDatePrefix \o <<48 + t>> \o sDateSuffix

\* uuidv4(): the n-th identifier drawn; two draws never give the same one
uuidv4(n) == sUuidPrefix \o <<48 + ((n \div 10) % 10), 48 + (n % 10)>>

\* the recipients of every role, whatever role is asked for
RecipientsOfAnyRole(recipients, role) ==
    [k \in 1..Len(recipients) |->
        [name |-> recipients[k].displayName, email |-> recipients[k].emailAddress]]

\* recipients.map(... recipType === role ? { name, email } : null).filter(...)
RECURSIVE RecipientsOfRole(_, _)
RecipientsOfRole(recipients, role) ==
    IF recipients = <<>> THEN <<>>
    ELSE (IF Head(recipients).recipientType = role
            THEN <<[name |-> Head(recipients).displayName,
                    email |-> Head(recipients).emailAddress]>>
            ELSE <<>>)
         \o RecipientsOfRole(Tail(recipients), role)

\* { name: "undisclosed-recipients" }
FallbackRecipient == [name |-> sIndex.Undisclosed, email |-> <<>>]

\* the Date header always reads the clock
DateOfNow(email, clock) == clock

\* messageDeliveryTime || clientSubmitTime || modificationTime || creationTime
\* || new Date()
DateOf(email, clock) ==
    IF email.messageDeliveryTime # <<>> THEN email.messageDeliveryTime[1]
    ELSE IF email.clientSubmitTime # <<>> THEN email.clientSubmitTime[1]
    ELSE IF email.modificationTime # <<>> THEN email.modificationTime[1]
    ELSE IF email.creationTime # <<>> THEN email.creationTime[1]
    ELSE clock

\* [longFilename, filename, displayName, "unnamed"].filter(it => it)[0]
ResolveFilename(attachment) ==
    IF attachment.longFilename # <<>> THEN attachment.longFilename
    ELSE IF attachment.filename # <<>> THEN attachment.filename
    ELSE IF attachment.displayName # <<>> THEN attachment.displayName
    ELSE sIndex.Unnamed

\* text[lo..hi] cut at every LF, by halves: the last piece of the left half
\* and the first piece of the right half are one piece
RECURSIVE SplitAtLF(_, _, _)
SplitAtLF(text, lo, hi) ==
    IF lo > hi THEN <<<<>>>>
    ELSE IF lo = hi THEN (IF text[lo] = 10 THEN <<<<>>, <<>>>> ELSE <<<<text[lo]>>>>)
    ELSE LET mid   == (lo + hi) \div 2
             left  == SplitAtLF(text, lo, mid)
             right == SplitAtLF(text, mid + 1, hi)
         IN  SubSeq(left, 1, Len(left) - 1)
             \o <<left[Len(left)] \o right[1]>>
             \o SubSeq(right, 2, Len(right))

\* nestedMail.split(/\r?\n/): a LF ends a piece and takes the CR right before
\* it with it
SplitLines(text) ==
    LET pieces == SplitAtLF(text, 1, Len(text))
    IN  [k \in 1..Len(pieces) |->
            IF k < Len(pieces) /\ pieces[k] # <<>> /\ pieces[k][Len(pieces[k])] = 13
              THEN SubSeq(pieces[k], 1, Len(pieces[k]) - 1)
              ELSE pieces[k]]

\* .map(line => line + "\r\n")
AppendCRLF(lines) == [i \in 1..Len(lines) |-> lines[i] \o CRLF]

\* the headers, lines 348-387
TopHeaders(options, email, clock, topBoundary) ==
    from([name |-> email.senderName, email |-> email.senderEmailAddress])
    \o to(applyFallbackRecipients(RecipientsOfRole(email.recipients, MAPI_TO),
                                  FallbackRecipient))
    \o cc(RecipientsOfRole(email.recipients, MAPI_CC))
    \o bcc(RecipientsOfRole(email.recipients, MAPI_BCC))
    \o subject(email.subject)
    \o date(DateToString(DateOf(email, clock)))
    \o messageId(options.messageId)
    \o contentTypeMultipartMixed(topBoundary)
    \o mimeVersion1

\* one body part of the alternative section, lines 396-402 and 405-411
BodyPart(altBoundary, type, text) ==
    newLine \o beginBoundary(altBoundary) \o contentType(type)
    \o contentTransferEncoding(sWriter.Base64) \o newLine
    \o applyStringAsUtf8(text, DefaultCutLinePer)

\* the body section with the plain part written before the HTML part
BodySectionPlainFirst(email, topBoundary, altBoundary) ==
    IF email.bodyHTML # <<>> \/ email.body # <<>>
      THEN newLine \o beginBoundary(topBoundary)
           \o contentTypeMultipartMixed(altBoundary)
           \o (IF email.body # <<>>
                 THEN BodyPart(altBoundary, sIndex.TextPlain, email.body) ELSE <<>>)
           \o (IF email.bodyHTML # <<>>
                 THEN BodyPart(altBoundary, sIndex.TextHtml, email.bodyHTML) ELSE <<>>)
           \o newLine \o endBoundary(altBoundary)
    ELSE <<>>

\* the body section, lines 389-416
BodySection(email, topBoundary, altBoundary) ==
    IF email.bodyHTML # <<>> \/ email.body # <<>>
      THEN newLine \o beginBoundary(topBoundary)
           \o contentTypeMultipartMixed(altBoundary)
           \o (IF email.bodyHTML # <<>>
                 THEN BodyPart(altBoundary, sIndex.TextHtml, email.bodyHTML) ELSE <<>>)
           \o (IF email.body # <<>>
                 THEN BodyPart(altBoundary, sIndex.TextPlain, email.body) ELSE <<>>)
           \o newLine \o endBoundary(altBoundary)
    ELSE <<>>

\* the part of one refined attachment, lines 419-449
AttachmentPart(attachment, topBoundary) ==
    IF attachment.nestedMail # <<>>
      THEN newLine \o beginBoundary(topBoundary)
           \o contentType(sIndex.MessageRfc822 \o encodeIfNeeded(attachment.filename)
                          \o sWriter.Quote)
           \o contentTransferEncoding(sIndex.SevenBit)
           \o (IF attachment.cid # <<>> THEN contentId(attachment.cid) ELSE <<>>)
           \o newLine
           \o AppendCRLF(SplitLines(attachment.nestedMail))
    ELSE IF attachment.content # <<>>
      THEN newLine \o beginBoundary(topBoundary)
           \o contentType(sIndex.OctetStream \o encodeIfNeeded(attachment.filename)
                          \o sWriter.Quote)
           \o writeHeader(sIndex.ContentDisposition,
                          sIndex.AttachmentFilename
                          \o encodeIfNeeded(attachment.filename) \o sWriter.Quote)
           \o contentTransferEncoding(sWriter.Base64)
           \o (IF attachment.cid # <<>> THEN contentId(attachment.cid) ELSE <<>>)
           \o newLine
           \o applyUint8Array(attachment.content[1], DefaultCutLinePer)
    ELSE <<>>

\* the loop over attachmentsRefined, lines 418-450
RECURSIVE AttachmentParts(_, _)
AttachmentParts(refined, topBoundary) ==
    IF refined = <<>> THEN <<>>
    ELSE AttachmentPart(Head(refined), topBoundary)
         \o AttachmentParts(Tail(refined), topBoundary)

\* the top boundary is always made from the identifier
GeneratedTopBoundary(options, boundary) ==
    sIndex.B1Prefix \o boundary \o sIndex.Underscore

\* options.baseBoundary ?? ("_b1" + boundary + "_")
TopBoundaryOf(options, boundary) ==
    IF options.baseBoundary # <<>> THEN options.baseBoundary[1]
    ELSE sIndex.B1Prefix \o boundary \o sIndex.Underscore

\* options.altBoundary ?? ("_b2" + boundary + "_")
AltBoundaryOf(options, boundary) ==
    IF options.altBoundary # <<>> THEN options.altBoundary[1]
    ELSE sIndex.B2Prefix \o boundary \o sIndex.Underscore

RECURSIVE toEmlStringFrom(_, _, _, _)
RECURSIVE RefineAttachments(_, _, _, _)

\* the refined attachment of an embedded message, always as bytes
RefineEmbeddedFlat(options, attachment, child) ==
    [refined |-> [filename |-> changeFileExtension(ResolveFilename(attachment), sIndex.DotEml),
                  nestedMail |-> <<>>,
                  content |-> <<Utf8Encode(child.eml)>>,
                  cid |-> attachment.contentId],
     calls |-> <<child>>,
     ctr |-> child.ctr]

\* lines 307-325: the refined attachment of an embedded message, child being
\* what the recursive call returned (toEmlFrom: utf8Encoder.encode(eml))
RefineEmbedded(options, attachment, child) ==
    [refined |-> [filename |-> changeFileExtension(ResolveFilename(attachment), sIndex.DotEml),
                  nestedMail |-> IF options.allowNestedEml THEN child.eml ELSE <<>>,
                  content |-> IF options.allowNestedEml THEN <<>>
                              ELSE <<Utf8Encode(child.eml)>>,
                  cid |-> attachment.contentId],
     calls |-> <<child>>,
     ctr |-> child.ctr]

\* lines 326-332: the refined attachment of a binary attachment
RefineBinary(attachment, ctr) ==
    [refined |-> [filename |-> ResolveFilename(attachment),
                  nestedMail |-> <<>>,
                  content |-> <<convertToUint8Array(attachment.fileData)>>,
                  cid |-> attachment.contentId],
     calls |-> <<>>,
     ctr |-> ctr]

\* one turn of the loop over the attachments, lines 297-333: the refined
\* attachment, the call it made for an embedded message, and the counter
RefineAttachment(options, attachment, clock, ctr) ==
    IF attachment.embedded # <<>>
      THEN RefineEmbedded(options, attachment,
                          toEmlStringFrom(options, attachment.embedded[1], clock, ctr))
      ELSE RefineBinary(attachment, ctr)

\* attachmentsRefined.push: the turn's result before those of the later turns
PushRefined(first, rest) ==
    [list |-> <<first.refined>> \o rest.list,
     calls |-> first.calls \o rest.calls,
     ctr |-> rest.ctr]

\* the turns after the first one, which start from the counter it left
RefineRest(options, attachments, clock, first) ==
    PushRefined(first, RefineAttachments(options, Tail(attachments), clock, first.ctr))

\* the loop over the attachments, lines 294-334
RefineAttachments(options, attachments, clock, ctr) ==
    IF attachments = <<>> THEN [list |-> <<>>, calls |-> <<>>, ctr |-> ctr]
    ELSE RefineRest(options, attachments, clock,
                    RefineAttachment(options, Head(attachments), clock, ctr))

\* lines 340-455: the document written with the boundaries chosen
WriteDocument(options, email, clock, refined, topBoundary, altBoundary) ==
    [eml |-> Concat(TopHeaders(options, email, clock, topBoundary)
                    \o BodySection(email, topBoundary, altBoundary)
                    \o AttachmentParts(refined.list, topBoundary)
                    \o endBoundary(topBoundary)),
     topBoundary |-> topBoundary,
     altBoundary |-> altBoundary,
     attachmentsRefined |-> refined.list,
     calls |-> refined.calls,
     ctr |-> refined.ctr + 1]

\* lines 336-338: the boundaries, from the options or from uuidv4()
ChooseBoundaries(options, email, clock, refined, boundary) ==
    WriteDocument(options, email, clock, refined,
                  TopBoundaryOf(options, boundary), AltBoundaryOf(options, boundary))

\* lines 336-455: what follows the loop over the attachments
AfterAttachments(options, email, clock, refined) ==
    ChooseBoundaries(options, email, clock, refined, uuidv4(refined.ctr))

\* toEmlStringFrom: the text it returns (eml), the locals the call ended
\* with (its boundaries, its refined attachments, the calls it made for the
\* embedded messages) and the count of uuidv4() calls after it
toEmlStringFrom(options, email, clock, ctr) ==
    AfterAttachments(options, email, clock,
                     RefineAttachments(options, email.attachments, clock, ctr))

\* toEmlFrom: the bytes of the text
toEmlFrom(options, email, clock, ctr) ==
    Utf8Encode(toEmlStringFrom(options, email, clock, ctr).eml)

(***************************************************************************)
(* convertVLines (src/unnamed/part_002, vLines.ts) and toVCardStrFrom      *)
(* (src/src/index.ts:466-541).                                             *)
(*                                                                         *)
(* A cell is a string or an array of strings: [array |-> FALSE, text |-> s]*)
(* or [array |-> TRUE, items |-> <<...>>], an item or a contact field being *)
(* <<>> when undefined and <<s>> when it is the string s.                  *)
(***************************************************************************)
\* the string literals of toVCardStrFrom
vTag ==
    \* "N"
    [N |-> <<78>>,
     \* "FN"
     FN |-> <<70, 78>>,
     \* "X-MS-N-YOMI"
     XMsNYomi |-> <<88, 45, 77, 83, 45, 78, 45, 89, 79, 77, 73>>,
     \* "ORG"
     ORG |-> <<79, 82, 71>>,
     \* "X-MS-ORG-YOMI"
     XMsOrgYomi |-> <<88, 45, 77, 83, 45, 79, 82, 71, 45, 89, 79, 77, 73>>,
     \* "TITLE"
     TITLE |-> <<84, 73, 84, 76, 69>>,
     \* "TEL"
     TEL |-> <<84, 69, 76>>,
     \* "WORK"
     WORK |-> <<87, 79, 82, 75>>,
     \* "VOICE"
     VOICE |-> <<86, 79, 73, 67, 69>>,
     \* "HOME"
     HOME |-> <<72, 79, 77, 69>>,
     \* "CELL"
     CELL |-> <<67, 69, 76, 76>>,
     \* "FAX"
     FAX |-> <<70, 65, 88>>,
     \* "ADR"
     ADR |-> <<65, 68, 82>>,
     \* "PREF"
     PREF |-> <<80, 82, 69, 70>>,
     \* "LABEL"
     LABEL |-> <<76, 65, 66, 69, 76>>,
     \* "URL"
     URL |-> <<85, 82, 76>>,
     \* "EMAIL"
     EMAIL |-> <<69, 77, 65, 73, 76>>,
     \* "INTERNET"
     INTERNET |-> <<73, 78, 84, 69, 82, 78, 69, 84>>,
     \* "BEGIN"
     BEGIN |-> <<66, 69, 71, 73, 78>>,
     \* "VERSION"
     VERSION |-> <<86, 69, 82, 83, 73, 79, 78>>,
     \* "END"
     END |-> <<69, 78, 68>>,
     \* "VCARD"
     VCARD |-> <<86, 67, 65, 82, 68>>,
     \* "2.1"
     TwoDotOne |-> <<50, 46, 49>>]

\* the string literals of convertVLines
vQuoted ==
    \* ";ENCODING=QUOTED-PRINTABLE"
    [QuotedPrintable |-> <<59, 69, 78, 67, 79, 68, 73, 78, 71, 61, 81, 85,
         79, 84, 69, 68, 45, 80, 82, 73, 78, 84, 65, 66, 76, 69>>,
     \* "=09"
     Tab |-> <<61, 48, 57>>,
     \* "=0D"
     CR |-> <<61, 48, 68>>,
     \* "=0A"
     LF |-> <<61, 48, 65>>]

Scalar(text) == [array |-> FALSE, text |-> text]

Array(items) == [array |-> TRUE, items |-> items]

\* Array.prototype.join(';'): an undefined element reads as the empty string
RECURSIVE JoinSemicolon(_)
JoinSemicolon(items) ==
    IF items = <<>> THEN <<>>
    ELSE (IF Head(items) = <<>> THEN <<>> ELSE Head(items)[1])
         \o (IF Len(items) > 1 THEN <<59>> ELSE <<>>)
         \o JoinSemicolon(Tail(items))

\* toText, lines 6-10
toText(vCell) == IF vCell.array THEN JoinSemicolon(vCell.items) ELSE vCell.text

\* text.match(/\r|\n|\t/)
HasControl(text) == \E i \in 1..Len(text) : text[i] \in {9, 10, 13}

\* String.prototype.replace(/c/g, by)
RECURSIVE ReplaceAll(_, _, _)
ReplaceAll(text, c, by) ==
    IF text = <<>> THEN <<>>
    ELSE (IF Head(text) = c THEN by ELSE <<Head(text)>>) \o ReplaceAll(Tail(text), c, by)

\* vEscape without the escapes: the qualifier only
vEscapeTagOnly(text) ==
    IF HasControl(text) THEN [more |-> vQuoted.QuotedPrintable, text |-> text]
    ELSE [more |-> <<>>, text |-> text]

\* vEscape, lines 12-26
vEscape(text) ==
    IF HasControl(text)
      THEN [more |-> vQuoted.QuotedPrintable,
            text |-> ReplaceAll(ReplaceAll(ReplaceAll(text, 9, vQuoted.Tab), 13, vQuoted.CR), 10, vQuoted.LF)]
    ELSE [more |-> <<>>, text |-> text]

\* lines 34-36: the line of one vLine whose value is defined
vLineText(kind, printer) == toText(kind) \o printer.more \o <<58>> \o printer.text

\* lines 28-38: the lines pushed for the vLines, the undefined values skipped
RECURSIVE vLinesToLines(_)
vLinesToLines(vLines) ==
    IF vLines = <<>> THEN <<>>
    ELSE (IF Head(vLines)[2] = <<>> THEN <<>>
          ELSE <<vLineText(Head(vLines)[1], vEscape(toText(Head(vLines)[2][1])))>>)
         \o vLinesToLines(Tail(vLines))

\* lines.join("\n")
RECURSIVE JoinLF(_)
JoinLF(lines) ==
    IF lines = <<>> THEN <<>>
    ELSE Head(lines) \o (IF Len(lines) > 1 THEN <<10>> ELSE <<>>) \o JoinLF(Tail(lines))

\* convertVLines
convertVLines(vLines) == JoinLF(vLinesToLines(vLines))

\* a provider that returns one field: the field or undefined
ScalarOf(field) == IF field = <<>> THEN <<>> ELSE <<Scalar(field[1])>>

\* a provider that returns an array of fields: always an array
ArrayOf(fields) == <<Array(fields)>>

\* the makers with FN before N
makersFnFirst(source) ==
    << <<Scalar(vTag.FN), ScalarOf(source.displayName)>>,
       <<Scalar(vTag.N), ArrayOf(<<source.surname, source.givenName, source.middleName,
                               source.displayNamePrefix, source.generation>>)>>,
       <<Scalar(vTag.XMsNYomi), ArrayOf(<<source.yomiLastName, source.yomiFirstName>>)>>,
       <<Scalar(vTag.ORG), ArrayOf(<<source.companyName, source.departmentName>>)>>,
       <<Scalar(vTag.XMsOrgYomi), ScalarOf(source.yomiCompanyName)>>,
       <<Scalar(vTag.TITLE), ScalarOf(source.title)>>,
       <<Array(<<<<vTag.TEL>>, <<vTag.WORK>>, <<vTag.VOICE>>>>), ScalarOf(source.businessTelephoneNumber)>>,
       <<Array(<<<<vTag.TEL>>, <<vTag.HOME>>, <<vTag.VOICE>>>>), ScalarOf(source.homeTelephoneNumber)>>,
       <<Array(<<<<vTag.TEL>>, <<vTag.CELL>>, <<vTag.VOICE>>>>), ScalarOf(source.mobileTelephoneNumber)>>,
       <<Array(<<<<vTag.TEL>>, <<vTag.WORK>>, <<vTag.FAX>>>>), ScalarOf(source.businessFaxNumber)>>,
       <<Array(<<<<vTag.ADR>>, <<vTag.WORK>>, <<vTag.PREF>>>>),
         ArrayOf(<<source.workAddressStreet, source.workAddressCity,
                   source.workAddressState, source.workAddressPostalCode,
                   source.workAddressCountry>>)>>,
       <<Array(<<<<vTag.LABEL>>, <<vTag.WORK>>, <<vTag.PREF>>>>), ScalarOf(source.workAddress)>>,
       <<Array(<<<<vTag.URL>>, <<vTag.WORK>>>>), ScalarOf(source.businessHomePage)>>,
       <<Array(<<<<vTag.EMAIL>>, <<vTag.PREF>>, <<vTag.INTERNET>>>>), ScalarOf(source.email1EmailAddress)>> >>

\* makers, lines 467-523, each with what its provider returns
makers(source) ==
    << <<Scalar(vTag.N), ArrayOf(<<source.surname, source.givenName, source.middleName,
                               source.displayNamePrefix, source.generation>>)>>,
       <<Scalar(vTag.FN), ScalarOf(source.displayName)>>,
       <<Scalar(vTag.XMsNYomi), ArrayOf(<<source.yomiLastName, source.yomiFirstName>>)>>,
       <<Scalar(vTag.ORG), ArrayOf(<<source.companyName, source.departmentName>>)>>,
       <<Scalar(vTag.XMsOrgYomi), ScalarOf(source.yomiCompanyName)>>,
       <<Scalar(vTag.TITLE), ScalarOf(source.title)>>,
       <<Array(<<<<vTag.TEL>>, <<vTag.WORK>>, <<vTag.VOICE>>>>), ScalarOf(source.businessTelephoneNumber)>>,
       <<Array(<<<<vTag.TEL>>, <<vTag.HOME>>, <<vTag.VOICE>>>>), ScalarOf(source.homeTelephoneNumber)>>,
       <<Array(<<<<vTag.TEL>>, <<vTag.CELL>>, <<vTag.VOICE>>>>), ScalarOf(source.mobileTelephoneNumber)>>,
       <<Array(<<<<vTag.TEL>>, <<vTag.WORK>>, <<vTag.FAX>>>>), ScalarOf(source.businessFaxNumber)>>,
       <<Array(<<<<vTag.ADR>>, <<vTag.WORK>>, <<vTag.PREF>>>>),
         ArrayOf(<<source.workAddressStreet, source.workAddressCity,
                   source.workAddressState, source.workAddressPostalCode,
                   source.workAddressCountry>>)>>,
       <<Array(<<<<vTag.LABEL>>, <<vTag.WORK>>, <<vTag.PREF>>>>), ScalarOf(source.workAddress)>>,
       <<Array(<<<<vTag.URL>>, <<vTag.WORK>>>>), ScalarOf(source.businessHomePage)>>,
       <<Array(<<<<vTag.EMAIL>>, <<vTag.PREF>>, <<vTag.INTERNET>>>>), ScalarOf(source.email1EmailAddress)>> >>

\* lines 525-538: the vLines handed to convertVLines
vLinesOf(source) ==
    << <<Array(<<<<vTag.BEGIN>>>>), <<Scalar(vTag.VCARD)>>>>,
       <<Array(<<<<vTag.VERSION>>>>), <<Scalar(vTag.TwoDotOne)>>>> >>
    \o makers(source)
    \o << <<Array(<<<<vTag.END>>>>), <<Scalar(vTag.VCARD)>>>> >>

\* toVCardStrFrom
toVCardStrFrom(options, source) == convertVLines(vLinesOf(source))

(***************************************************************************)
(* The texts the inputs are made of.                                       *)
(***************************************************************************)
\* the texts the inputs are made of
tInput ==
    \* "Ann"
    [Ann |-> <<65, 110, 110>>,
     \* "a@x"
     AnnMail |-> <<97, 64, 120>>,
     \* "Bob"
     Bob |-> <<66, 111, 98>>,
     \* "c@x.y"
     CarMail |-> <<99, 64, 120, 46, 121>>,
     \* "Dan"
     Dan |-> <<68, 97, 110>>,
     \* "d\n@x"
     DanMail |-> <<100, 10, 64, 120>>,
     \* "Eve"
     Eve |-> <<69, 118, 101>>,
     \* "e\r\nX:y"
     EveMail |-> <<101, 13, 10, 88, 58, 121>>,
     \* "Sam"
     Sender |-> <<83, 97, 109>>,
     \* "s@x"
     SenderMail |-> <<115, 64, 120>>,
     \* "Hi"
     Hi |-> <<72, 105>>,
     \* "hello"
     Hello |-> <<104, 101, 108, 108, 111>>,
     \* "<p>hi</p>"
     Html |-> <<60, 112, 62, 104, 105, 60, 47, 112, 62>>,
     \* "a.txt"
     ATxt |-> <<97, 46, 116, 120, 116>>,
     \* "m.msg"
     MsgName |-> <<109, 46, 109, 115, 103>>,
     \* ".x"
     Hidden |-> <<46, 120>>,
     \* "d/e"
     DirName |-> <<100, 47, 101>>,
     \* "c1"
     Cid |-> <<99, 49>>,
     \* "B1"
     B1 |-> <<66, 49>>,
     \* "B2"
     B2 |-> <<66, 50>>,
     \* "b.1"
     Dot1 |-> <<98, 46, 49>>,
     \* "b.2"
     Dot2 |-> <<98, 46, 50>>,
     \* "id1"
     Id |-> <<105, 100, 49>>,
     \* "in"
     Inner |-> <<105, 110>>,
     \* "wr"
     Wrap |-> <<119, 114>>]


(***************************************************************************)
(* The inputs of the base64 specification.                                 *)
(***************************************************************************)
ByteVals == {0, 1, 127, 128, 255}

\* a patterned byte sequence of length n that runs through many byte values
PatternBytes(n) == [i \in 1..n |-> (i * 37 + 11) % 256]

B64Inputs ==
    SeqsUpTo(ByteVals, MaxShortLen) \cup {PatternBytes(n) : n \in 0..MaxLongLen}

CutLens == {-1, 0, 1, 3, 4, DefaultCutLinePer}

genIdle == B64Start(<<>>, 0)

hdrIdle == [word |-> <<>>, result |-> <<>>, called |-> FALSE]

\* the composition part of the state while another part is exercised
EmlIdle ==
    /\ msg = <<>>
    /\ opts = <<>>
    /\ now = 0
    /\ uuidCount = 0
    /\ runs = <<>>

emlVars == <<msg, opts, now, uuidCount, runs>>

cardIdle == [source |-> <<>>, result |-> <<>>, called |-> FALSE]

taskIdle == [stack |-> <<>>, outcome |-> <<>>, ctr |-> 0, started |-> FALSE, failed |-> FALSE]

\* the vCard and the step-by-step parts of the state while another part is
\* exercised
pairIdle == [calls |-> <<>>, ctr |-> 0, overlap |-> FALSE]

treeIdle == [store |-> <<>>, closed |-> FALSE, closes |-> 0, held |-> {}, log |-> <<>>]

RestIdle ==
    /\ card = cardIdle
    /\ task = taskIdle
    /\ pair = pairIdle
    /\ tree = treeIdle

restVars == <<card, task, pair, tree>>


B64Init ==
    /\ gen \in {B64Start(d, c) : d \in B64Inputs, c \in CutLens}
    /\ hdr = hdrIdle
    /\ EmlIdle
    /\ RestIdle

\* the consumer pulls the generator once more
B64Pull ==
    /\ ~gen.done
    /\ gen' = B64Turn(gen)
    /\ UNCHANGED <<hdr, emlVars, restVars>>

B64Next == B64Pull

SpecB64 == B64Init /\ [][B64Next]_vars

(***************************************************************************)
(* The inputs of the encoded-word specification: every string of at most   *)
(* MaxWordLen code units over A, space, _, ., LF, U+00E9, U+20AC and the   *)
(* two surrogates of U+1F600.                                              *)
(***************************************************************************)
WordChars == {65, 32, 95, 46, 10, 233, 8364, 55357, 56832}

WordInit ==
    /\ hdr \in {[word |-> w, result |-> <<>>, called |-> FALSE] :
                    w \in SeqsUpTo(WordChars, MaxWordLen)}
    /\ gen = genIdle
    /\ EmlIdle
    /\ RestIdle

\* a header operation of the writer encodes its value
EncodeCall ==
    /\ ~hdr.called
    /\ hdr' = [hdr EXCEPT !.result = encodeIfNeeded(hdr.word), !.called = TRUE]
    /\ UNCHANGED <<gen, emlVars, restVars>>

WordNext == EncodeCall

SpecWord == WordInit /\ [][WordNext]_vars

(***************************************************************************)
(* The inputs of the composition specification.                            *)
(***************************************************************************)
Recipient(name, mail, type) ==
    [displayName |-> name, emailAddress |-> mail, recipientType |-> type]

\* a To recipient with both fields, a Cc recipient with a name only, a Bcc
\* recipient with an address only, a To recipient whose address holds a LF,
\* a Cc recipient whose address holds a CRLF
RecipientPool ==
    {Recipient(tInput.Ann, tInput.AnnMail, MAPI_TO), Recipient(tInput.Bob, <<>>, MAPI_CC),
     Recipient(<<>>, tInput.CarMail, MAPI_BCC), Recipient(tInput.Dan, tInput.DanMail, MAPI_TO),
     Recipient(tInput.Eve, tInput.EveMail, MAPI_CC)}

\* the four timestamps: delivery, submission, modification, creation
NoTimes == <<<<>>, <<>>, <<>>, <<>>>>
DeliveryOnly == <<<<5>>, <<>>, <<>>, <<>>>>
TimeChoices == {NoTimes, DeliveryOnly, <<<<>>, <<>>, <<>>, <<7>>>>, <<<<>>, <<6>>, <<8>>, <<>>>>}

Message(sender, recipients, subj, plain, html, times, atts) ==
    [senderName |-> sender.name, senderEmailAddress |-> sender.email,
     recipients |-> recipients, subject |-> subj, body |-> plain, bodyHTML |-> html,
     messageDeliveryTime |-> times[1], clientSubmitTime |-> times[2],
     modificationTime |-> times[3], creationTime |-> times[4],
     attachments |-> atts]

BinaryAttachment(long, short, display, cid, data) ==
    [longFilename |-> long, filename |-> short, displayName |-> display,
     contentId |-> cid, fileData |-> data, embedded |-> <<>>]

EmbeddedAttachment(display, cid, message) ==
    [longFilename |-> <<>>, filename |-> <<>>, displayName |-> display,
     contentId |-> cid, fileData |-> <<>>, embedded |-> <<message>>]

Senders == {[name |-> tInput.Sender, email |-> tInput.SenderMail], [name |-> <<>>, email |-> tInput.SenderMail]}

\* an embedded message with no attachment of its own
InnerLeaf(times) ==
    Message([name |-> tInput.Sender, email |-> tInput.SenderMail], <<>>, tInput.Inner, tInput.Hi, <<>>, times, <<>>)

\* an embedded message whose recipient's address holds a LF
InnerDan ==
    Message([name |-> tInput.Sender, email |-> tInput.SenderMail],
            <<Recipient(tInput.Dan, tInput.DanMail, MAPI_TO)>>, tInput.Inner, tInput.Hi, <<>>, DeliveryOnly, <<>>)

\* an embedded message that embeds another one
InnerWrap(message) ==
    Message([name |-> tInput.Sender, email |-> tInput.SenderMail], <<>>, tInput.Wrap, <<>>, <<>>,
            DeliveryOnly, <<EmbeddedAttachment(tInput.MsgName, <<>>, message)>>)

\* the messages that may be embedded, nested at most depth deep
RECURSIVE InnerMessages(_)
InnerMessages(depth) ==
    IF depth = 0 THEN {}
    ELSE {InnerLeaf(NoTimes), InnerLeaf(DeliveryOnly)}
         \cup {InnerWrap(m) : m \in InnerMessages(depth - 1)}

AttachmentPool ==
    {BinaryAttachment(tInput.ATxt, <<>>, <<>>, <<>>, <<<<104, 105, 33, 255>>>>),
     BinaryAttachment(<<>>, <<>>, <<>>, tInput.Cid, <<>>)}
    \cup {EmbeddedAttachment(n, <<>>, InnerLeaf(DeliveryOnly)) : n \in {tInput.Hidden, tInput.DirName}}
    \cup {EmbeddedAttachment(tInput.MsgName, tInput.Cid, m) : m \in InnerMessages(MaxDepth)}
    \cup {EmbeddedAttachment(tInput.MsgName, <<>>, InnerDan)}

\* the attachment lists: every list over a binary attachment and an embedded
\* message, and every attachment of the pool alone
CorePool ==
    {BinaryAttachment(tInput.ATxt, <<>>, <<>>, <<>>, <<<<104, 105, 33, 255>>>>),
     EmbeddedAttachment(tInput.MsgName, tInput.Cid, InnerLeaf(NoTimes))}

AttachmentLists ==
    SeqsUpTo(CorePool, MaxAttachments) \cup {<<a>> : a \in AttachmentPool}

TheSender == [name |-> tInput.Sender, email |-> tInput.SenderMail]

\* messages that vary the sender and the recipients, or the timestamps
HeaderMessages ==
    {Message(s, r, tInput.Hi, tInput.Hello, <<>>, DeliveryOnly, <<>>) :
        s \in Senders, r \in SeqsUpTo(RecipientPool, MaxRecipients)}
    \cup {Message(TheSender, <<>>, tInput.Hi, tInput.Hello, <<>>, t, <<>>) : t \in TimeChoices}

\* messages that vary the bodies, the attachments and the presence of a timestamp
PartMessages ==
    {Message(TheSender, <<Recipient(tInput.Ann, tInput.AnnMail, MAPI_TO)>>, tInput.Hi, b, h, t, a) :
        b \in {<<>>, tInput.Hello}, h \in {<<>>, tInput.Html}, t \in {NoTimes, DeliveryOnly},
        a \in AttachmentLists}

\* MsgConverterOptions: the boundaries fixed or left to uuidv4, the
\* message id given or not, nested EML allowed or not
OptionSets ==
    {[baseBoundary |-> b[1], altBoundary |-> b[2], messageId |-> id, allowNestedEml |-> n] :
        b \in {<<<<tInput.B1>>, <<tInput.B2>>>>, <<<<>>, <<>>>>}, id \in {<<>>, tInput.Id}, n \in BOOLEAN}

\* what a caller may ask for: nested EML matters to messages with attachments
\* only; the boundaries a caller fixes may hold a dot
Requests ==
    (HeaderMessages \X {o \in OptionSets : ~o.allowNestedEml})
        \cup (PartMessages \X OptionSets)
        \cup (PartMessages \X
                {[baseBoundary |-> <<tInput.Dot1>>, altBoundary |-> <<tInput.Dot2>>,
                  messageId |-> <<>>, allowNestedEml |-> n] : n \in BOOLEAN})

(***************************************************************************)
(* The composition specification: a caller composes one message twice with *)
(* the same options (toEmlStringFrom), the clock moving on in between.     *)
(***************************************************************************)
EmlInit ==
    /\ \E request \in Requests : msg = request[1] /\ opts = request[2]
    /\ now = 0
    /\ uuidCount = 0
    /\ runs = <<>>
    /\ gen = genIdle
    /\ hdr = hdrIdle
    /\ RestIdle

\* one call of toEmlStringFrom with the clock reading it saw
Call == [result |-> toEmlStringFrom(opts, msg, now, uuidCount), clock |-> now]

\* the caller composes the message
Compose ==
    /\ Len(runs) = 0
    /\ LET call == Call
       IN  /\ runs' = <<call>>
           /\ uuidCount' = call.result.ctr
    /\ UNCHANGED <<msg, opts, now, gen, hdr, restVars>>

\* a second passes
Tick ==
    /\ Len(runs) = 1
    /\ now < MaxClock
    /\ now' = now + 1
    /\ UNCHANGED <<msg, opts, uuidCount, runs, gen, hdr, restVars>>

\* the caller composes the same message again
ComposeAgain ==
    /\ Len(runs) = 1
    /\ LET call == Call
       IN  /\ runs' = Append(runs, call)
           /\ uuidCount' = call.result.ctr
    /\ UNCHANGED <<msg, opts, now, gen, hdr, restVars>>

EmlNext == Compose \/ Tick \/ ComposeAgain

SpecEml == EmlInit /\ [][EmlNext]_vars

(***************************************************************************)
(* The vCard specification: a caller converts one contact. A contact has   *)
(* at most MaxContactFields fields set, each to the empty string, to a     *)
(* plain text or to a text with a CR, a LF and a tab.                      *)
(***************************************************************************)
ContactFields ==
    {"surname", "givenName", "middleName", "displayNamePrefix", "generation",
     "displayName", "yomiLastName", "yomiFirstName", "companyName",
     "departmentName", "yomiCompanyName", "title", "businessTelephoneNumber",
     "homeTelephoneNumber", "mobileTelephoneNumber", "businessFaxNumber",
     "workAddressStreet", "workAddressCity", "workAddressState",
     "workAddressPostalCode", "workAddressCountry", "workAddress",
     "businessHomePage", "email1EmailAddress"}

\* "", "A:;=", "a\r\n\tb"
FieldTexts == {<<>>, <<65, 58, 59, 61>>, <<97, 13, 10, 9, 98>>}

\* the contact with no field set
BlankContact == [f \in ContactFields |-> <<>>]

\* the contacts with at most n fields set
RECURSIVE Contacts(_)
Contacts(n) ==
    IF n = 0 THEN {BlankContact}
    ELSE Contacts(n - 1)
         \cup {[c EXCEPT ![f] = <<t>>] :
                  c \in Contacts(n - 1), f \in ContactFields, t \in FieldTexts}

CardInit ==
    /\ card \in {[source |-> c, result |-> <<>>, called |-> FALSE] :
                     c \in Contacts(MaxContactFields)}
    /\ gen = genIdle
    /\ hdr = hdrIdle
    /\ EmlIdle
    /\ task = taskIdle
    /\ pair = pairIdle
    /\ tree = treeIdle

\* the caller converts the contact (PItem.toVCardStr)
CardCall ==
    /\ ~card.called
    /\ card' = [card EXCEPT !.result = toVCardStrFrom(opts, card.source),
                            !.called = TRUE]
    /\ UNCHANGED <<gen, hdr, emlVars, task, pair, tree>>

CardNext == CardCall

SpecCard == CardInit /\ [][CardNext]_vars

(***************************************************************************)
(* The step-by-step specification: one call of toEmlStringFrom taken apart *)
(* at its awaits and at the sections it writes. task.stack holds the calls *)
(* in progress, the call for an embedded message above the call that       *)
(* awaits it. Any step may throw: a read of the record source (the awaited *)
(* getRecipient, getAttachment, getEmbeddedPSTMessage, a property getter)  *)
(* or a step that formats and writes. The function has no try and no catch.*)
(***************************************************************************)
\* the locals of a call, lines 284-340
Frame(email) ==
    [email |-> email, recipients |-> <<>>, x |-> 0, attachmentsRefined |-> <<>>,
     phase |-> "read", topBoundary |-> <<>>, altBoundary |-> <<>>, chunks |-> <<>>,
     error |-> <<>>]

\* the call that is running
Top == task.stack[Len(task.stack)]

\* a call is in progress and nothing has been thrown in it
Running == task.stack # <<>> /\ Top.error = <<>>

ReplaceTop(frame) == [task EXCEPT !.stack[Len(task.stack)] = frame]

\* the loop over the recipients is over
RecipientsRead(frame) == Len(frame.recipients) = Len(frame.email.recipients)

\* the loops over the recipients and the attachments are over
AllRead(frame) ==
    /\ Len(frame.recipients) = Len(frame.email.recipients)
    /\ frame.x = Len(frame.email.attachments)

\* the step a call is about to take
StepOf(frame) ==
    IF frame.phase = "read" /\ AllRead(frame) THEN "headers" ELSE frame.phase

\* a promise fulfilled by return eml, line 456
Returned(eml) == [kind |-> "resolved", value |-> <<eml>>, error |-> <<>>]

\* a throw leaves the call with the chunks it wrote and returns what it wrote
RecoverPartial(frame, error) ==
    [kind |-> "resolved", value |-> <<Concat(frame.chunks)>>, error |-> <<>>]

\* a throw leaves an async function that has no try: its promise is rejected
\* with what was thrown, its locals (chunks) are dropped
Rethrow(frame, error) == [kind |-> "rejected", value |-> <<>>, error |-> <<error>>]

\* the promise of the running call settles: the caller of the outermost call
\* gets it; the call that awaits an embedded message (lines 308, 317) goes on
\* with the text, or the await throws what the promise was rejected with
Settle(settled) ==
    IF Len(task.stack) = 1
      THEN [task EXCEPT !.stack = <<>>, !.outcome = <<settled>>]
    ELSE LET parent     == task.stack[Len(task.stack) - 1]
             attachment == parent.email.attachments[parent.x + 1]
             child      == [eml |-> settled.value[1], ctr |-> task.ctr]
         IN  [task EXCEPT !.stack =
                Append(SubSeq(task.stack, 1, Len(task.stack) - 2),
                       IF settled.kind = "rejected"
                         THEN [parent EXCEPT !.error = settled.error]
                         ELSE [parent EXCEPT
                                 !.attachmentsRefined =
                                     Append(@, RefineEmbedded(opts, attachment, child).refined),
                                 !.x = @ + 1])]

\* messages with bodies and attachments, with every choice of boundaries and
\* of nesting
TaskRequests == {r \in PartMessages \X OptionSets : r[2].messageId = <<>>}

TaskInit ==
    /\ \E request \in TaskRequests : msg = request[1] /\ opts = request[2]
    /\ now = 0
    /\ uuidCount = 0
    /\ runs = <<>>
    /\ gen = genIdle
    /\ hdr = hdrIdle
    /\ RestIdle

\* the caller calls toEmlStringFrom(options, email)
TaskCall ==
    /\ ~task.started
    /\ task' = [task EXCEPT !.started = TRUE, !.stack = <<Frame(msg)>>]
    /\ UNCHANGED <<gen, hdr, emlVars, card, pair, tree>>

\* lines 285-292: one turn of the loop over the recipients
ReadRecipient ==
    /\ Running
    /\ Top.phase = "read"
    /\ Len(Top.recipients) < Len(Top.email.recipients)
    /\ task' = ReplaceTop([Top EXCEPT !.recipients =
                              Append(@, Top.email.recipients[Len(Top.recipients) + 1])])
    /\ UNCHANGED <<gen, hdr, emlVars, card, pair, tree>>

\* lines 297-306, 326-332: one turn of the loop over the attachments, for an
\* attachment that is not a message
ReadAttachment ==
    /\ Running
    /\ Top.phase = "read"
    /\ Len(Top.recipients) = Len(Top.email.recipients)
    /\ Top.x < Len(Top.email.attachments)
    /\ Top.email.attachments[Top.x + 1].embedded = <<>>
    /\ task' = ReplaceTop([Top EXCEPT
                   !.attachmentsRefined =
                       Append(@, RefineBinary(Top.email.attachments[Top.x + 1], task.ctr).refined),
                   !.x = @ + 1])
    /\ UNCHANGED <<gen, hdr, emlVars, card, pair, tree>>

\* lines 297-308, 317: the attachment is a message, the call composes it and
\* awaits the text
EnterEmbedded ==
    /\ Running
    /\ Top.phase = "read"
    /\ Len(Top.recipients) = Len(Top.email.recipients)
    /\ Top.x < Len(Top.email.attachments)
    /\ Top.email.attachments[Top.x + 1].embedded # <<>>
    /\ task' = [task EXCEPT !.stack =
                   Append(@, Frame(Top.email.attachments[Top.x + 1].embedded[1]))]
    /\ UNCHANGED <<gen, hdr, emlVars, card, pair, tree>>

\* lines 336-387: the boundaries and the headers
WriteHeaders ==
    /\ Running
    /\ Top.phase = "read"
    /\ AllRead(Top)
    /\ LET boundary    == uuidv4(task.ctr)
           topBoundary == TopBoundaryOf(opts, boundary)
       IN  task' = [ReplaceTop([Top EXCEPT
                       !.topBoundary = topBoundary,
                       !.altBoundary = AltBoundaryOf(opts, boundary),
                       !.chunks = TopHeaders(opts, [Top.email EXCEPT !.recipients = Top.recipients],
                                             now, topBoundary),
                       !.phase = "body"])
                    EXCEPT !.ctr = @ + 1]
    /\ UNCHANGED <<gen, hdr, emlVars, card, pair, tree>>

\* lines 389-416: the body section
WriteBody ==
    /\ Running
    /\ Top.phase = "body"
    /\ task' = ReplaceTop([Top EXCEPT
                   !.chunks = @ \o BodySection(Top.email, Top.topBoundary, Top.altBoundary),
                   !.phase = "parts"])
    /\ UNCHANGED <<gen, hdr, emlVars, card, pair, tree>>

\* lines 418-450: the parts of the attachments
WriteParts ==
    /\ Running
    /\ Top.phase = "parts"
    /\ task' = ReplaceTop([Top EXCEPT
                   !.chunks = @ \o AttachmentParts(Top.attachmentsRefined, Top.topBoundary),
                   !.phase = "end"])
    /\ UNCHANGED <<gen, hdr, emlVars, card, pair, tree>>

\* lines 452-456: the closing boundary, chunks.join("") and return
Return ==
    /\ Running
    /\ Top.phase = "end"
    /\ task' = Settle(Returned(Concat(Top.chunks \o endBoundary(Top.topBoundary))))
    /\ UNCHANGED <<gen, hdr, emlVars, card, pair, tree>>

\* the step the running call is about to take throws: a read rejects or
\* throws, or a formatting step throws
Throw ==
    /\ Running
    /\ task' = [ReplaceTop([Top EXCEPT !.error =
                    <<[name  |-> IF StepOf(Top) = "read" THEN "ReadError" ELSE "TypeError",
                       step  |-> StepOf(Top),
                       depth |-> Len(task.stack),
                       cause |-> <<>>]>>])
                EXCEPT !.failed = TRUE]
    /\ UNCHANGED <<gen, hdr, emlVars, card, pair, tree>>

\* what was thrown leaves the call it was thrown in
Unwind ==
    /\ task.stack # <<>>
    /\ Top.error # <<>>
    /\ task' = Settle(Rethrow(Top, Top.error[1]))
    /\ UNCHANGED <<gen, hdr, emlVars, card, pair, tree>>

TaskNext ==
    \/ TaskCall
    \/ ReadRecipient
    \/ ReadAttachment
    \/ EnterEmbedded
    \/ WriteHeaders
    \/ WriteBody
    \/ WriteParts
    \/ Return
    \/ Throw
    \/ Unwind

SpecTask == TaskInit /\ [][TaskNext]_vars

(***************************************************************************)
(* Two calls of toEmlStringFrom in progress at once. Each call has its own *)
(* locals (recipients, attachmentsRefined, chunks, the writer); the calls  *)
(* share the module, that is uuidv4 and the clock. A call runs from one    *)
(* await to the next, then either call may be resumed. The reads succeed.  *)
(***************************************************************************)
\* toEmlStringFrom(options, email) has been called and is at its first await
PairCall(options, email) ==
    [options |-> options, email |-> email, stack |-> <<Frame(email)>>, outcome |-> <<>>]

\* a call writes: some frame of it holds chunks and it has not returned
Writing(call) == \E i \in 1..Len(call.stack) : call.stack[i].chunks # <<>>

\* the step a call takes when it is resumed, with the identifier counter it
\* finds: lines 284-456, and lines 308, 317 where the text of an embedded
\* message comes back
Advance(call, ctr, clock) ==
    LET depth      == Len(call.stack)
        top        == call.stack[depth]
        options    == call.options
        put(frame) == [call |-> [call EXCEPT !.stack[depth] = frame], ctr |-> ctr]
    IN  IF top.phase = "read" /\ Len(top.recipients) < Len(top.email.recipients)
          THEN put([top EXCEPT !.recipients =
                       Append(@, top.email.recipients[Len(top.recipients) + 1])])
        ELSE IF top.phase = "read" /\ top.x < Len(top.email.attachments)
          THEN LET attachment == top.email.attachments[top.x + 1]
               IN  IF attachment.embedded = <<>>
                     THEN put([top EXCEPT
                                 !.attachmentsRefined =
                                     Append(@, RefineBinary(attachment, ctr).refined),
                                 !.x = @ + 1])
                   ELSE [call |-> [call EXCEPT !.stack =
                                      Append(@, Frame(attachment.embedded[1]))],
                         ctr |-> ctr]
        ELSE IF top.phase = "read"
          THEN LET boundary    == uuidv4(ctr)
                   topBoundary == TopBoundaryOf(options, boundary)
               IN  [call |-> [call EXCEPT !.stack[depth] =
                                 [top EXCEPT
                                    !.topBoundary = topBoundary,
                                    !.altBoundary = AltBoundaryOf(options, boundary),
                                    !.chunks = TopHeaders(options,
                                                   [top.email EXCEPT !.recipients = top.recipients],
                                                   clock, topBoundary),
                                    !.phase = "body"]],
                    ctr |-> ctr + 1]
        ELSE IF top.phase = "body"
          THEN put([top EXCEPT
                      !.chunks = @ \o BodySection(top.email, top.topBoundary, top.altBoundary),
                      !.phase = "parts"])
        ELSE IF top.phase = "parts"
          THEN put([top EXCEPT
                      !.chunks = @ \o AttachmentParts(top.attachmentsRefined, top.topBoundary),
                      !.phase = "end"])
        ELSE LET eml == Concat(top.chunks \o endBoundary(top.topBoundary))
             IN  IF depth = 1
                   THEN [call |-> [call EXCEPT !.stack = <<>>, !.outcome = <<eml>>],
                         ctr |-> ctr]
                 ELSE LET parent     == call.stack[depth - 1]
                          attachment == parent.email.attachments[parent.x + 1]
                          child      == [eml |-> eml, ctr |-> ctr]
                      IN  [call |-> [call EXCEPT !.stack =
                                        Append(SubSeq(call.stack, 1, depth - 2),
                                               [parent EXCEPT
                                                  !.attachmentsRefined =
                                                      Append(@, RefineEmbedded(options, attachment,
                                                                               child).refined),
                                                  !.x = @ + 1])],
                           ctr |-> ctr]

\* a message with a plain body, one with an HTML body, no timestamp and a
\* file, one with both bodies and an embedded message
PairMessages ==
    {Message(TheSender, <<Recipient(tInput.Ann, tInput.AnnMail, MAPI_TO)>>, tInput.Hi,
             tInput.Hello, <<>>, DeliveryOnly, <<>>),
     Message(TheSender, <<Recipient(tInput.Eve, tInput.EveMail, MAPI_CC)>>, tInput.Inner,
             <<>>, tInput.Html, NoTimes,
             <<BinaryAttachment(tInput.ATxt, <<>>, <<>>, <<>>, <<<<104, 105, 33, 255>>>>)>>),
     Message(TheSender, <<Recipient(tInput.Ann, tInput.AnnMail, MAPI_TO)>>, tInput.Wrap,
             tInput.Hello, tInput.Html, DeliveryOnly,
             <<EmbeddedAttachment(tInput.MsgName, <<>>, InnerDan)>>)}

\* two pairs of fixed boundaries, and the boundaries left to uuidv4
PairOptions ==
    {[baseBoundary |-> <<tInput.B1>>, altBoundary |-> <<tInput.B2>>,
      messageId |-> <<>>, allowNestedEml |-> FALSE],
     [baseBoundary |-> <<tInput.Dot1>>, altBoundary |-> <<tInput.Dot2>>,
      messageId |-> <<>>, allowNestedEml |-> TRUE],
     [baseBoundary |-> <<>>, altBoundary |-> <<>>,
      messageId |-> <<>>, allowNestedEml |-> TRUE]}

PairInit ==
    /\ \E o1 \in PairOptions, m1 \in PairMessages, o2 \in PairOptions, m2 \in PairMessages :
          pair = [calls |-> <<PairCall(o1, m1), PairCall(o2, m2)>>, ctr |-> 0,
                  overlap |-> FALSE]
    /\ gen = genIdle
    /\ hdr = hdrIdle
    /\ EmlIdle
    /\ card = cardIdle
    /\ task = taskIdle
    /\ tree = treeIdle

\* the event loop resumes one of the two calls, which runs to its next await
\* or returns; pair.overlap remembers that both calls were writing at once
Resume ==
    \E i \in 1..2 :
        /\ pair.calls[i].stack # <<>>
        /\ LET step  == Advance(pair.calls[i], pair.ctr, now)
               calls == [pair.calls EXCEPT ![i] = step.call]
           IN  pair' = [calls |-> calls, ctr |-> step.ctr,
                        overlap |-> pair.overlap \/ (Writing(calls[1]) /\ Writing(calls[2]))]
        /\ UNCHANGED <<gen, hdr, emlVars, card, task, tree>>

PairNext == Resume

SpecPair == PairInit /\ [][PairNext]_vars

(***************************************************************************)
(* The tree of a store: PRoot over an IPSTFile, PFolder over an IPSTFolder,*)
(* PItem over an entry of a folder's list. A wrapper holds the object it   *)
(* wraps and nothing else, so a PFolder is modelled by its IPSTFolder and  *)
(* a PItem by its FasterEmail. tree.held are the PFolder wrappers the      *)
(* caller has got so far, tree.log the calls the caller made with what     *)
(* they returned or threw, tree.closes the calls of the file's close().    *)
(***************************************************************************)
MaxCalls == 4

\* the wrappers of a list
Range(list) == {list[k] : k \in DOMAIN list}

\* an entry of a folder's list (FasterEmail)
Faster(id, class) == [primaryNodeId |-> id, messageClass |-> class]

\* an IPSTFolder: what it reports (hasSubfolders, contentCount) and what its
\* lists hold (getSubFolders, getFasterEmailList)
Folder(id, reports, children, count, emails) ==
    [primaryNodeId |-> id, hasSubfolders |-> reports, subFolders |-> children,
     contentCount |-> count, emails |-> emails]

\* the stores: a root folder with a mail of its own; a root folder with a
\* folder of two mails and an empty folder; folders three deep; a root
\* folder that reports no subfolder and no content although its lists hold
\* a folder and a mail
StorePool ==
    {[displayName |-> tInput.Hi,
      root |-> Folder(1, FALSE, <<>>, 1, <<Faster(11, "IPM.Note")>>)],
     [displayName |-> tInput.Hi,
      root |-> Folder(1, TRUE,
                      <<Folder(2, FALSE, <<>>, 2,
                               <<Faster(21, "IPM.Note"), Faster(22, "IPM.Contact")>>),
                        Folder(3, FALSE, <<>>, 0, <<>>)>>,
                      0, <<>>)],
     [displayName |-> tInput.Inner,
      root |-> Folder(1, TRUE,
                      <<Folder(2, TRUE,
                               <<Folder(3, FALSE, <<>>, 1, <<Faster(31, "IPM.Contact")>>)>>,
                               1, <<Faster(21, "IPM.Note")>>)>>,
                      0, <<>>)],
     [displayName |-> tInput.Inner,
      root |-> Folder(1, FALSE,
                      <<Folder(2, FALSE, <<>>, 1, <<Faster(21, "IPM.Note")>>)>>,
                      0, <<Faster(11, "IPM.Note")>>)]}

\* new Error("Trying to access disposed object.")
Disposed == [name |-> "Error", message |-> "Trying to access disposed object."]

\* a call that returned, a call that threw or whose promise was rejected; on
\* is <<>> for a call on the root and <<folder>> for a call on a PFolder
Ok(op, on, value) == [op |-> op, on |-> on, ok |-> TRUE, value |-> <<value>>, error |-> <<>>]
Failed(op, on, error) == [op |-> op, on |-> on, ok |-> FALSE, value |-> <<>>, error |-> <<error>>]

\* the four members of PRoot that check this.closed first, lines 81-113
RootMember(t, op, value) ==
    IF t.closed THEN Failed(op, <<>>, Disposed) ELSE Ok(op, <<>>, value)

\* PRoot.subFolders, lines 102-104: one wrapper, of the file's root folder
PRootSubFolders(store) == <<store.root>>

\* PRoot.items, line 112
PRootItems(store) == <<>>

\* PRoot.close forgets to set the flag
AfterCloseOpen(t) == [t EXCEPT !.closes = @ + 1]

\* PRoot.close, lines 120-121: the file's close() is called, its promise is
\* not awaited, the flag is set
AfterClose(t) == [t EXCEPT !.closes = @ + 1, !.closed = TRUE]

\* PFolder.subFolders without the test of hasSubfolders
PFolderSubFoldersUnchecked(folder) == folder.subFolders

\* PFolder.subFolders, lines 144-155: one wrapper per child, in the order of
\* getSubFolders
PFolderSubFolders(folder) ==
    IF folder.hasSubfolders THEN folder.subFolders ELSE <<>>

\* PFolder.items without the test of contentCount
PFolderItemsUnchecked(folder) == folder.emails

\* PFolder.items, lines 157-171: one wrapper per entry of getFasterEmailList
PFolderItems(folder) ==
    IF 1 <= folder.contentCount THEN folder.emails ELSE <<>>

\* what walk appends to stat.structure: "[" (with the node it was called
\* on), "E(class,id,))" and "]"
OpenToken(id) == [t |-> "[", id |-> id]
ItemToken(item) == [t |-> "E", id |-> item.primaryNodeId, class |-> item.messageClass]
CloseToken == [t |-> "]"]

\* the inner loop of walk over the items of one subfolder
ItemTokens(items) == [k \in 1..Len(items) |-> ItemToken(items[k])]

\* walk(folder, stat) of the traversal test: id and subFolders are
\* folder.primaryNodeId and what folder.subFolders() returned
RECURSIVE walk(_, _)
RECURSIVE walkSubFolders(_)
walk(id, subFolders) ==
    <<OpenToken(id)>> \o walkSubFolders(subFolders) \o <<CloseToken>>

\* the loop of walk over the subfolders
walkSubFolders(subFolders) ==
    IF subFolders = <<>> THEN <<>>
    ELSE LET subFolder == Head(subFolders)
         IN  ItemTokens(PFolderItems(subFolder))
             \o walk(subFolder.primaryNodeId, PFolderSubFolders(subFolder))
             \o walkSubFolders(Tail(subFolders))

\* the caller may make one more call
MayCall == tree.store # <<>> /\ Len(tree.log) < MaxCalls

\* the store of tree
TheStore == tree.store[1]

Logged(t, entry) == [t EXCEPT !.log = Append(@, entry)]

\* wrapPstFile(pstFile), lines 17-22
TreeInit ==
    /\ \E store \in StorePool : tree = [treeIdle EXCEPT !.store = <<store>>]
    /\ gen = genIdle
    /\ hdr = hdrIdle
    /\ EmlIdle
    /\ card = cardIdle
    /\ task = taskIdle
    /\ pair = pairIdle

\* root.displayName(), lines 81-87
RootDisplayName ==
    /\ MayCall
    /\ tree' = Logged(tree, RootMember(tree, "displayName", TheStore.displayName))
    /\ UNCHANGED <<gen, hdr, emlVars, card, task, pair>>

\* root.primaryNodeId, lines 89-95
RootPrimaryNodeId ==
    /\ MayCall
    /\ tree' = Logged(tree, RootMember(tree, "primaryNodeId", 0))
    /\ UNCHANGED <<gen, hdr, emlVars, card, task, pair>>

\* root.subFolders(), lines 97-105: the caller holds the wrapper it got
RootSubFolders ==
    /\ MayCall
    /\ LET call == RootMember(tree, "subFolders", PRootSubFolders(TheStore))
       IN  tree' = [Logged(tree, call) EXCEPT
                       !.held = IF call.ok THEN @ \cup Range(call.value[1]) ELSE @]
    /\ UNCHANGED <<gen, hdr, emlVars, card, task, pair>>

\* root.items(), lines 107-113
RootItems ==
    /\ MayCall
    /\ tree' = Logged(tree, RootMember(tree, "items", PRootItems(TheStore)))
    /\ UNCHANGED <<gen, hdr, emlVars, card, task, pair>>

\* root.close(), lines 115-122
RootClose ==
    /\ MayCall
    /\ tree' = Logged(IF tree.closed THEN tree ELSE AfterClose(tree),
                      Ok("close", <<>>, <<>>))
    /\ UNCHANGED <<gen, hdr, emlVars, card, task, pair>>

\* folder.subFolders() on a wrapper the caller holds, while the file is open
FolderSubFolders ==
    /\ MayCall
    /\ ~tree.closed
    /\ \E folder \in tree.held :
          LET list == PFolderSubFolders(folder)
          IN  tree' = [Logged(tree, Ok("subFolders", <<folder>>, list)) EXCEPT
                          !.held = @ \cup Range(list)]
    /\ UNCHANGED <<gen, hdr, emlVars, card, task, pair>>

\* folder.items() on a wrapper the caller holds, while the file is open
FolderItems ==
    /\ MayCall
    /\ ~tree.closed
    /\ \E folder \in tree.held :
          tree' = Logged(tree, Ok("items", <<folder>>, PFolderItems(folder)))
    /\ UNCHANGED <<gen, hdr, emlVars, card, task, pair>>

\* walk(pst, stat) of the traversal test: the first subFolders() is the
\* root's, which throws when the root is closed
Walk ==
    /\ MayCall
    /\ tree' = Logged(tree,
                      IF tree.closed THEN Failed("walk", <<>>, Disposed)
                      ELSE Ok("walk", <<>>, walk(0, PRootSubFolders(TheStore))))
    /\ UNCHANGED <<gen, hdr, emlVars, card, task, pair>>

TreeNext ==
    \/ RootDisplayName
    \/ RootPrimaryNodeId
    \/ RootSubFolders
    \/ RootItems
    \/ RootClose
    \/ FolderSubFolders
    \/ FolderItems
    \/ Walk

SpecTree == TreeInit /\ [][TreeNext]_vars

(***************************************************************************)
(* A standard base64 decoder (RFC 4648), written from the standard and not *)
(* from the encoder's table. An input that is no base64 text decodes to    *)
(* <<-1>>, which is no byte sequence.                                      *)
(***************************************************************************)
StdB64Value(c) ==
    IF c \in 65..90 THEN c - 65
    ELSE IF c \in 97..122 THEN c - 71
    ELSE IF c \in 48..57 THEN c + 4
    ELSE IF c = 43 THEN 62
    ELSE IF c = 47 THEN 63
    ELSE -1

\* the bytes of the k-th group of four characters; last tells whether
\* it is the final group, the only one that may be padded
StdB64Group(text, k, last) ==
    LET c3 == text[4 * k - 1]
        c4 == text[4 * k]
        v1 == StdB64Value(text[4 * k - 3])
        v2 == StdB64Value(text[4 * k - 2])
        v3 == StdB64Value(c3)
        v4 == StdB64Value(c4)
    IN  IF v1 < 0 \/ v2 < 0 THEN <<-1>>
        ELSE IF c3 = 61 /\ c4 = 61
          THEN IF last /\ v2 % 16 = 0 THEN <<v1 * 4 + v2 \div 16>> ELSE <<-1>>
        ELSE IF v3 < 0 THEN <<-1>>
        ELSE IF c4 = 61
          THEN IF last /\ v3 % 4 = 0
                 THEN <<v1 * 4 + v2 \div 16, (v2 % 16) * 16 + v3 \div 4>>
                 ELSE <<-1>>
        ELSE IF v4 < 0 THEN <<-1>>
        ELSE <<v1 * 4 + v2 \div 16, (v2 % 16) * 16 + v3 \div 4, (v3 % 4) * 64 + v4>>

StdB64Decode(text) ==
    LET n      == Len(text) \div 4
        groups == [k \in 1..n |-> StdB64Group(text, k, k = n)]
    IN  IF Len(text) % 4 # 0 \/ \E k \in 1..n : groups[k] = <<-1>> THEN <<-1>>
        ELSE Concat(groups)

\* the text with every CR and LF removed
StripLineBreaks(text) == SelectSeq(text, LAMBDA c : c # 13 /\ c # 10)

\* C1: once the generator is drained, the chunks it yielded, joined, with the
\* inserted CRLF line breaks removed, decode with a standard base64 decoder to
\* exactly the input bytes, for every input (the empty one too) and wrap length.
C1_RoundTrip ==
    gen.done => StdB64Decode(StripLineBreaks(Concat(gen.yielded))) = gen.bytes

\* a drained generator that wrapped: several lines, the last one padded
C1_Witness ==
    /\ gen.done
    /\ Len(gen.yielded) >= 3
    /\ Len(gen.bytes) % 3 = 2
    /\ gen.cut = DefaultCutLinePer

\* C2 as stated: with the default wrap length every yielded chunk but the
\* final one is 76 characters long, its CRLF included.
C2_Lines76 ==
    (gen.done /\ gen.cut = DefaultCutLinePer) =>
        \A i \in 1..(Len(gen.yielded) - 1) : Len(gen.yielded[i]) = 76

\* C2 amended: with the default wrap length every yielded chunk but the final
\* one is 74 characters long: the 72 base64 characters of 54 source bytes and
\* the two characters of its CRLF terminator.
C2_Lines74 ==
    (gen.done /\ gen.cut = DefaultCutLinePer) =>
        \A i \in 1..(Len(gen.yielded) - 1) :
            /\ Len(gen.yielded[i]) = 74
            /\ SubSeq(gen.yielded[i], 73, 74) = CRLF
            /\ Len(StdB64Decode(SubSeq(gen.yielded[i], 1, 72))) = 54

\* a drained default-wrap generator with two full lines before its final one
C2_Witness ==
    /\ gen.done
    /\ gen.cut = DefaultCutLinePer
    /\ Len(gen.yielded) = 3
    /\ Len(gen.yielded[1]) = 74

(***************************************************************************)
(* A standard UTF-8 decoder to UTF-16 code units (a code point above       *)
(* U+FFFF becomes its surrogate pair). Bytes that are no UTF-8 decode      *)
(* to <<-1>>.                                                              *)
(***************************************************************************)
IsCont(b) == b \in 128..191

Utf16OfCodePoint(cp) ==
    IF cp < 65536 THEN <<cp>>
    ELSE <<55296 + (cp - 65536) \div 1024, 56320 + ((cp - 65536) % 1024)>>

RECURSIVE StdUtf8Decode(_)
StdUtf8Decode(bytes) ==
    IF bytes = <<>> THEN <<>>
    ELSE LET b1 == bytes[1]
             n  == IF b1 < 128 THEN 1
                   ELSE IF b1 \in 194..223 THEN 2
                   ELSE IF b1 \in 224..239 THEN 3
                   ELSE IF b1 \in 240..244 THEN 4
                   ELSE 0
         IN  IF n = 0 \/ Len(bytes) < n \/ \E k \in 2..n : ~IsCont(bytes[k])
               THEN <<-1>>
             ELSE LET cp == IF n = 1 THEN b1
                            ELSE IF n = 2 THEN (b1 - 192) * 64 + (bytes[2] - 128)
                            ELSE IF n = 3
                              THEN (b1 - 224) * 4096 + (bytes[2] - 128) * 64
                                   + (bytes[3] - 128)
                            ELSE (b1 - 240) * 262144 + (bytes[2] - 128) * 4096
                                 + (bytes[3] - 128) * 64 + (bytes[4] - 128)
                  IN  Utf16OfCodePoint(cp) \o StdUtf8Decode(SubSeq(bytes, n + 1, Len(bytes)))

\* the safe set as the contract declares it: letters, digits, space and
\* ! # $ % & @ : - / \ _
DeclaredSafe ==
    (65..90) \cup (97..122) \cup (48..57)
        \cup {32, 33, 35, 36, 37, 38, 64, 58, 45, 47, 92, 95}

AllDeclaredSafe(word) == \A i \in 1..Len(word) : word[i] \in DeclaredSafe

\* every surrogate of the string is half of a high-low pair
RECURSIVE WellFormedUtf16(_)
WellFormedUtf16(str) ==
    IF str = <<>> THEN TRUE
    ELSE IF IsHighSurrogate(str[1])
      THEN Len(str) >= 2 /\ IsLowSurrogate(str[2])
           /\ WellFormedUtf16(SubSeq(str, 3, Len(str)))
    ELSE ~IsLowSurrogate(str[1]) /\ WellFormedUtf16(Tail(str))

\* the text has the form =?utf-8?B?<b64>?=
IsEncodedWord(text) ==
    /\ Len(text) >= Len(EncodedWordOpen) + Len(EncodedWordClose)
    /\ SubSeq(text, 1, Len(EncodedWordOpen)) = EncodedWordOpen
    /\ SubSeq(text, Len(text) - 1, Len(text)) = EncodedWordClose

\* <b64> of =?utf-8?B?<b64>?=
EncodedWordInner(text) == SubSeq(text, Len(EncodedWordOpen) + 1, Len(text) - 2)

\* the result is an encoded word without a line break that decodes to the word
EncodesTo(result, word) ==
    /\ IsEncodedWord(result)
    /\ \A i \in 1..Len(result) : result[i] # 13 /\ result[i] # 10
    /\ StdUtf8Decode(StdB64Decode(EncodedWordInner(result))) = word

\* C3 as stated: a value of safe characters only is returned unchanged, and
\* any other value comes back as =?utf-8?B?<b64>?= whose <b64> has no line
\* break and decodes, as base64 then UTF-8, to exactly the value.
C3_EncodeIfNeeded ==
    hdr.called =>
        IF AllDeclaredSafe(hdr.word) THEN hdr.result = hdr.word
        ELSE EncodesTo(hdr.result, hdr.word)

\* C3 amended: the same, the round trip being claimed for the values that are
\* well-formed UTF-16 (no unpaired surrogate); any other value still comes
\* back as a single-line encoded word.
C3_EncodeIfNeededWellFormed ==
    hdr.called =>
        IF AllDeclaredSafe(hdr.word) THEN hdr.result = hdr.word
        ELSE /\ IsEncodedWord(hdr.result)
             /\ \A i \in 1..Len(hdr.result) : hdr.result[i] # 13 /\ hdr.result[i] # 10
             /\ StdB64Decode(EncodedWordInner(hdr.result)) # <<-1>>
             /\ WellFormedUtf16(hdr.word) => EncodesTo(hdr.result, hdr.word)

\* an encoded value that mixes a safe character, a three-byte character and
\* a surrogate pair
C3_Witness ==
    /\ hdr.called
    /\ hdr.word = <<65, 8364, 55357>> \/ hdr.word = <<8364, 55357, 56832>>
    /\ IsEncodedWord(hdr.result)

(***************************************************************************)
(* Reading a composed document: occurrences, lines and parts.              *)
(***************************************************************************)
\* pat occurs in text at position i
OccursAt(text, i, pat) ==
    /\ i >= 1
    /\ i + Len(pat) - 1 <= Len(text)
    /\ \A k \in 1..Len(pat) : text[i + k - 1] = pat[k]

Occurrences(text, pat) == {i \in 1..Len(text) : OccursAt(text, i, pat)}

EndsWith(text, pat) == OccursAt(text, Len(text) - Len(pat) + 1, pat)

\* the positions where a line of the document starts
LineStarts(text) == {1} \cup {i + 1 : i \in {j \in 1..(Len(text) - 1) : text[j] = 10}}

\* the positions of the lines that read exactly line, CRLF-terminated
LinesEqual(text, line) == {i \in LineStarts(text) : OccursAt(text, i, line \o <<13, 10>>)}

\* the positions of the lines that begin with prefix
LinesStarting(text, prefix) == {i \in LineStarts(text) : OccursAt(text, i, prefix)}

\* the text from position i up to the next CR or LF, or to the end
RestOfLine(text, i) ==
    LET stops == {j \in i..Len(text) : text[j] = 13 \/ text[j] = 10}
        stop  == IF stops = {} THEN Len(text) + 1
                 ELSE CHOOSE j \in stops : \A k \in stops : j <= k
    IN  SubSeq(text, i, stop - 1)

\* the text from position i up to the next double quote
UpToQuote(text, i) ==
    LET stops == {j \in i..Len(text) : text[j] = 34}
        stop  == IF stops = {} THEN Len(text) + 1
                 ELSE CHOOSE j \in stops : \A k \in stops : j <= k
    IN  SubSeq(text, i, stop - 1)

\* the smallest element of a non-empty set of positions
First(S) == CHOOSE i \in S : \A j \in S : i <= j

\* the result of the caller's first composition
Doc == runs[1].result

Composed == Len(runs) >= 1

BothBoundariesFixed == opts.baseBoundary # <<>> /\ opts.altBoundary # <<>>

HasTimestamp(m) ==
    \/ m.messageDeliveryTime # <<>>
    \/ m.clientSubmitTime # <<>>
    \/ m.modificationTime # <<>>
    \/ m.creationTime # <<>>

\* the message and every message embedded in it, at any depth, has a timestamp
RECURSIVE AllTimed(_)
AllTimed(m) ==
    /\ HasTimestamp(m)
    /\ \A k \in 1..Len(m.attachments) :
           m.attachments[k].embedded # <<>> => AllTimed(m.attachments[k].embedded[1])

HasEmbedded(m) == \E k \in 1..Len(m.attachments) : m.attachments[k].embedded # <<>>

\* C4 as stated: with both boundaries fixed, two compositions of the same
\* message give the same text, for every message (also one without any of
\* the four timestamps, also one with embedded messages).
C4_Idempotent ==
    (Len(runs) = 2 /\ BothBoundariesFixed) =>
        runs[1].result.eml = runs[2].result.eml

\* C4 amended: with both boundaries fixed, two compositions of the same
\* message give the same text whenever the message and every message
\* embedded in it carry at least one of the four timestamps (a message
\* without one gets the reading of the clock as its Date).
C4_IdempotentTimed ==
    (Len(runs) = 2 /\ BothBoundariesFixed /\ AllTimed(msg)) =>
        runs[1].result.eml = runs[2].result.eml

\* a timed message with an embedded message composed at two clock readings
C4_Witness ==
    /\ Len(runs) = 2
    /\ BothBoundariesFixed
    /\ AllTimed(msg)
    /\ HasEmbedded(msg)
    /\ runs[1].clock # runs[2].clock

\* the parts a document opens under its top boundary: the body section
\* and one per attachment
PartCount(m) ==
    (IF m.bodyHTML # <<>> \/ m.body # <<>> THEN 1 ELSE 0) + Len(m.attachments)

\* C5: in every composed document the line --<top boundary> occurs once per
\* emitted part, and the line --<top boundary>-- occurs once, as the final
\* line.
C5_TopBoundaryOncePerPart ==
    Composed =>
        /\ Cardinality(LinesEqual(Doc.eml, <<45, 45>> \o Doc.topBoundary)) = PartCount(msg)
        /\ Cardinality(LinesEqual(Doc.eml, <<45, 45>> \o Doc.topBoundary \o <<45, 45>>)) = 1
        /\ EndsWith(Doc.eml, <<13, 10, 45, 45>> \o Doc.topBoundary \o <<45, 45, 13, 10>>)

\* the boundaries of the calls a call made for embedded messages, at any depth
RECURSIVE NestedBoundaries(_)
NestedBoundaries(call) ==
    UNION {{call.calls[k].topBoundary, call.calls[k].altBoundary}
               \cup NestedBoundaries(call.calls[k]) : k \in 1..Len(call.calls)}

\* C6: the top and alternative boundaries of a composition differ from every
\* boundary of the compositions of the messages embedded in its attachments,
\* with fixed boundaries as with generated ones.
C6_NoBoundaryCollision ==
    (Composed /\ HasEmbedded(msg)) =>
        {Doc.topBoundary, Doc.altBoundary} \cap NestedBoundaries(Doc) = {}

\* the lines of the top-level header block: those before the first empty line
TopHeaderLines(text) ==
    LET blanks == LinesEqual(text, <<>>)
        stop   == IF blanks = {} THEN Len(text) + 1 ELSE First(blanks)
    IN  {i \in LineStarts(text) : i < stop}

\* "To: "
cToHeader ==
    <<84, 111, 58, 32>>

\* "undisclosed-recipients"
cFallbackLabel ==
    <<117, 110, 100, 105, 115, 99, 108, 111, 115, 101, 100, 45, 114, 101,
      99, 105, 112, 105, 101, 110, 116, 115>>

NoToRecipient(m) ==
    \A k \in 1..Len(m.recipients) : m.recipients[k].recipientType # 1

\* C7: the document of a message with no recipient of the To role has, in its
\* top-level headers, a To header whose value is not empty and contains the
\* label undisclosed-recipients.
C7_ToFallback ==
    (Composed /\ NoToRecipient(msg)) =>
        \E i \in TopHeaderLines(Doc.eml) :
            /\ OccursAt(Doc.eml, i, cToHeader)
            /\ LET value == RestOfLine(Doc.eml, i + Len(cToHeader))
               IN  value # <<>> /\ Occurrences(value, cFallbackLabel) # {}

\* a composed message whose only recipients are a Cc and a Bcc recipient
C7_Witness ==
    /\ Composed
    /\ NoToRecipient(msg)
    /\ Len(msg.recipients) = 2
    /\ msg.recipients[1].recipientType # msg.recipients[2].recipientType

\* C8: every line of a composed document ends with CRLF and no LF stands
\* without a CR right before it.
C8_NoBareLF ==
    Composed =>
        /\ EndsWith(Doc.eml, <<13, 10>>)
        /\ \A i \in 1..Len(Doc.eml) :
               Doc.eml[i] = 10 => (i > 1 /\ Doc.eml[i - 1] = 13)

\* "hello"
cBody ==
    <<104, 101, 108, 108, 111>>

\* "a.txt"
cAttachmentName ==
    <<97, 46, 116, 120, 116>>

\* 'Content-Type: multipart/mixed; boundary="B1"'
cMixedB1 ==
    <<67, 111, 110, 116, 101, 110, 116, 45, 84, 121, 112, 101, 58, 32, 109,
      117, 108, 116, 105, 112, 97, 114, 116, 47, 109, 105, 120, 101, 100,
      59, 32, 98, 111, 117, 110, 100, 97, 114, 121, 61, 34, 66, 49, 34>>

\* "Content-Type: text/plain; charset=utf-8"
cTextPlain ==
    <<67, 111, 110, 116, 101, 110, 116, 45, 84, 121, 112, 101, 58, 32, 116,
      101, 120, 116, 47, 112, 108, 97, 105, 110, 59, 32, 99, 104, 97, 114,
      115, 101, 116, 61, 117, 116, 102, 45, 56>>

\* "Content-Transfer-Encoding: base64"
cEncodingBase64 ==
    <<67, 111, 110, 116, 101, 110, 116, 45, 84, 114, 97, 110, 115, 102, 101,
      114, 45, 69, 110, 99, 111, 100, 105, 110, 103, 58, 32, 98, 97, 115,
      101, 54, 52>>

\* 'Content-Type: application/octet-stream; name="'
cOctetStreamName ==
    <<67, 111, 110, 116, 101, 110, 116, 45, 84, 121, 112, 101, 58, 32, 97,
      112, 112, 108, 105, 99, 97, 116, 105, 111, 110, 47, 111, 99, 116, 101,
      116, 45, 115, 116, 114, 101, 97, 109, 59, 32, 110, 97, 109, 101, 61,
      34>>

\* "Content-Type: message/rfc822"
cMessageRfc822 ==
    <<67, 111, 110, 116, 101, 110, 116, 45, 84, 121, 112, 101, 58, 32, 109,
      101, 115, 115, 97, 103, 101, 47, 114, 102, 99, 56, 50, 50>>

\* "--B1--"
cCloseB1 ==
    <<45, 45, 66, 49, 45, 45>>

\* ".eml"
cDotEml ==
    <<46, 101, 109, 108>>

\* the message and options of the scenario: a plain body only, one binary
\* attachment named a.txt, the boundaries fixed to B1 and B2
C9_Scenario ==
    /\ Composed
    /\ msg.body = cBody
    /\ msg.bodyHTML = <<>>
    /\ Len(msg.attachments) = 1
    /\ msg.attachments[1].embedded = <<>>
    /\ msg.attachments[1].longFilename = cAttachmentName
    /\ msg.attachments[1].fileData # <<>>
    /\ opts.baseBoundary = <<<<66, 49>>>>
    /\ opts.altBoundary = <<<<66, 50>>>>

\* the base64 lines of a part, decoded: the text from position i (the start
\* of the part's content) up to the next empty line or boundary line
PartContent(text, i) ==
    LET stops == {j \in LineStarts(text) :
                     j >= i /\ (OccursAt(text, j, <<13, 10>>) \/ OccursAt(text, j, <<45, 45>>))}
        stop  == IF stops = {} THEN Len(text) + 1 ELSE First(stops)
    IN  StdB64Decode(StripLineBreaks(SubSeq(text, i, stop - 1)))

\* the text/plain part holds the base64 of the body
C9_PlainPart ==
    \E i \in LinesEqual(Doc.eml, cTextPlain) :
        LET j == i + Len(cTextPlain) + 2
        IN  /\ OccursAt(Doc.eml, j, cEncodingBase64 \o <<13, 10, 13, 10>>)
            /\ StdUtf8Decode(PartContent(Doc.eml, j + Len(cEncodingBase64) + 4)) = msg.body

\* the octet-stream part whose name parameter satisfies Named holds the
\* base64 of the attachment's bytes
C9_BinaryPart(Named(_)) ==
    \E i \in LinesStarting(Doc.eml, cOctetStreamName) :
        LET name   == UpToQuote(Doc.eml, i + Len(cOctetStreamName))
            blanks == {j \in LinesEqual(Doc.eml, <<>>) : j > i}
        IN  /\ Named(name)
            /\ blanks # {}
            /\ PartContent(Doc.eml, First(blanks) + 2) = msg.attachments[1].fileData[1]

IsLiteralName(name) == name = cAttachmentName

IsEncodedName(name) ==
    /\ IsEncodedWord(name)
    /\ StdUtf8Decode(StdB64Decode(EncodedWordInner(name))) = cAttachmentName

\* C9 as stated: in the scenario the document has the header
\* Content-Type: multipart/mixed; boundary="B1", a text/plain; charset=utf-8
\* part with the base64 of the body, an application/octet-stream part named
\* "a.txt" with the base64 of the attachment's bytes, and ends with --B1--.
C9_ScenarioLiteral ==
    C9_Scenario =>
        /\ LinesEqual(Doc.eml, cMixedB1) # {}
        /\ C9_PlainPart
        /\ C9_BinaryPart(IsLiteralName)
        /\ EndsWith(Doc.eml, <<13, 10>> \o cCloseB1 \o <<13, 10>>)

\* C9 amended: the same, the name parameter of the application/octet-stream
\* part being the encoded word of "a.txt" (=?utf-8?B?YS50eHQ=?=, the full
\* stop being outside the safe set), and the document ending with the line
\* --B1-- and its CRLF.
C9_ScenarioEncodedName ==
    C9_Scenario =>
        /\ LinesEqual(Doc.eml, cMixedB1) # {}
        /\ C9_PlainPart
        /\ C9_BinaryPart(IsEncodedName)
        /\ EndsWith(Doc.eml, <<13, 10>> \o cCloseB1 \o <<13, 10>>)

\* the scenario composed
C9_Witness == C9_Scenario /\ Len(Doc.eml) > 0

\* one attachment, an embedded message, composed without nested EML
C10_Scenario ==
    /\ Composed
    /\ Len(msg.attachments) = 1
    /\ msg.attachments[1].embedded # <<>>
    /\ ~opts.allowNestedEml

\* C10: the part of an embedded message composed with allowNestedEml=false
\* is of type application/octet-stream and never message/rfc822, its name
\* ends with .eml whatever the attachment was called, and its base64 body
\* decodes to the bytes of the embedded message's own composition.
C10_FlattenedEml ==
    C10_Scenario =>
        /\ LinesStarting(Doc.eml, cMessageRfc822) = {}
        /\ Cardinality(LinesStarting(Doc.eml, cOctetStreamName)) = 1
        /\ LET i      == First(LinesStarting(Doc.eml, cOctetStreamName))
               name   == UpToQuote(Doc.eml, i + Len(cOctetStreamName))
               blanks == {j \in LinesEqual(Doc.eml, <<>>) : j > i}
           IN  /\ IsEncodedWord(name)
               /\ EndsWith(StdUtf8Decode(StdB64Decode(EncodedWordInner(name))), cDotEml)
               /\ EndsWith(Doc.attachmentsRefined[1].filename, cDotEml)
               /\ blanks # {}
               /\ PartContent(Doc.eml, First(blanks) + 2)
                      = toEmlFrom(opts, msg.attachments[1].embedded[1], runs[1].clock, 0)

\* a flattened embedded message whose attachment name had no .eml extension
\* and that itself embeds a message
C10_Witness ==
    /\ C10_Scenario
    /\ ~EndsWith(msg.attachments[1].displayName, cDotEml)
    /\ HasEmbedded(msg.attachments[1].embedded[1])
    /\ msg.body # <<>>

\* text[lo..hi] with every LF that has no CR before it made a CRLF
RECURSIVE ForceCRLFRange(_, _, _)
ForceCRLFRange(text, lo, hi) ==
    IF lo > hi THEN <<>>
    ELSE IF lo = hi
      THEN (IF text[lo] = 10 /\ (lo = 1 \/ text[lo - 1] # 13)
              THEN <<13, 10>> ELSE <<text[lo]>>)
    ELSE ForceCRLFRange(text, lo, (lo + hi) \div 2)
         \o ForceCRLFRange(text, ((lo + hi) \div 2) + 1, hi)

\* the text with every line end forced to CRLF
ForceCRLF(text) == ForceCRLFRange(text, 1, Len(text))

\* "Content-Transfer-Encoding: 7bit"
cEncoding7bit ==
    <<67, 111, 110, 116, 101, 110, 116, 45, 84, 114, 97, 110, 115, 102, 101,
      114, 45, 69, 110, 99, 111, 100, 105, 110, 103, 58, 32, 55, 98, 105, 116>>

\* one attachment, an embedded message, composed with nested EML allowed
C11_Scenario ==
    /\ Composed
    /\ Len(msg.attachments) = 1
    /\ msg.attachments[1].embedded # <<>>
    /\ opts.allowNestedEml

\* the document's tail from position i on
TailFrom(text, i) == SubSeq(text, i, Len(text))

C11_WitnessBareLF ==
    /\ C11_Scenario
    /\ msg.attachments[1].embedded[1].recipients # <<>>

HasBody(m) == m.bodyHTML # <<>> \/ m.body # <<>>

\* 'Content-Type: multipart/alternative; boundary="'
cMultipartAlternative ==
    <<67, 111, 110, 116, 101, 110, 116, 45, 84, 121, 112, 101, 58, 32, 109,
      117, 108, 116, 105, 112, 97, 114, 116, 47, 97, 108, 116, 101, 114,
      110, 97, 116, 105, 118, 101, 59, 32, 98, 111, 117, 110, 100, 97, 114,
      121, 61, 34>>

\* 'Content-Type: multipart/mixed; boundary="'
cMultipartMixed ==
    <<67, 111, 110, 116, 101, 110, 116, 45, 84, 121, 112, 101, 58, 32, 109,
      117, 108, 116, 105, 112, 97, 114, 116, 47, 109, 105, 120, 101, 100,
      59, 32, 98, 111, 117, 110, 100, 97, 114, 121, 61, 34>>

\* "Content-Type: text/html; charset=utf-8"
cTextHtml ==
    <<67, 111, 110, 116, 101, 110, 116, 45, 84, 121, 112, 101, 58, 32, 116,
      101, 120, 116, 47, 104, 116, 109, 108, 59, 32, 99, 104, 97, 114, 115,
      101, 116, 61, 117, 116, 102, 45, 56>>

\* where the part that holds the bodies opens: the first opening marker of
\* the top boundary (the body section is written before the attachments)
BodySectionStart(doc) == First(LinesEqual(doc.eml, <<45, 45>> \o doc.topBoundary))

\* the position right after the line that starts at i and reads line
AfterLine(i, line) == i + Len(line) + 2

\* C13: when a message has a plain or an HTML body, the part opened under
\* the top boundary for the bodies is declared by the header
\* Content-Type: multipart/alternative; boundary="<alternative boundary>".
C13_MultipartAlternative ==
    (Composed /\ HasBody(msg)) =>
        /\ LinesEqual(Doc.eml, <<45, 45>> \o Doc.topBoundary) # {}
        /\ OccursAt(Doc.eml,
                    AfterLine(BodySectionStart(Doc), <<45, 45>> \o Doc.topBoundary),
                    cMultipartAlternative \o Doc.altBoundary \o <<34, 13, 10>>)

\* what the code declares instead: multipart/mixed with the alternative
\* boundary as the encoder returns it
C13_DeclaredMixed ==
    (Composed /\ HasBody(msg)) =>
        /\ LinesEqual(Doc.eml, <<45, 45>> \o Doc.topBoundary) # {}
        /\ OccursAt(Doc.eml,
                    AfterLine(BodySectionStart(Doc), <<45, 45>> \o Doc.topBoundary),
                    cMultipartMixed \o encodeIfNeeded(Doc.altBoundary) \o <<34, 13, 10>>)

\* where the body section closes: the first closing marker of the
\* alternative boundary
BodySectionEnd(doc) ==
    First(LinesEqual(doc.eml, <<45, 45>> \o doc.altBoundary \o <<45, 45>>))

\* the lines of the body section that read line
SectionLines(doc, line) ==
    {i \in LinesEqual(doc.eml, line) : BodySectionStart(doc) < i /\ i < BodySectionEnd(doc)}

\* a body part of the section: opened by the alternative boundary right
\* before its Content-Type line at i, base64-encoded, holding the text
IsBodyPart(doc, i, type, text) ==
    LET open == <<45, 45>> \o doc.altBoundary
        j    == AfterLine(i, type)
    IN  /\ OccursAt(doc.eml, i - Len(open) - 4, <<13, 10>> \o open \o <<13, 10>>)
        /\ OccursAt(doc.eml, j, cEncodingBase64 \o <<13, 10, 13, 10>>)
        /\ StdUtf8Decode(PartContent(doc.eml, j + Len(cEncodingBase64) + 4)) = text

\* C14: in the body section the text/html; charset=utf-8 part (HTML body
\* present) comes before the text/plain; charset=utf-8 part (plain body
\* present), each is base64-encoded and holds its body, an absent body has
\* no part, and the alternative boundary is closed once, after the parts
\* and right before what follows the section.
C14_BodySectionOrder ==
    (Composed /\ HasBody(msg)) =>
        /\ LinesEqual(Doc.eml, <<45, 45>> \o Doc.topBoundary) # {}
        /\ LinesEqual(Doc.eml, <<45, 45>> \o Doc.altBoundary \o <<45, 45>>) # {}
        /\ BodySectionStart(Doc) < BodySectionEnd(Doc)
        /\ Cardinality(SectionLines(Doc, cTextHtml))
               = (IF msg.bodyHTML # <<>> THEN 1 ELSE 0)
        /\ Cardinality(SectionLines(Doc, cTextPlain))
               = (IF msg.body # <<>> THEN 1 ELSE 0)
        /\ Cardinality(SectionLines(Doc, <<45, 45>> \o Doc.altBoundary))
               = (IF msg.bodyHTML # <<>> THEN 1 ELSE 0) + (IF msg.body # <<>> THEN 1 ELSE 0)
        /\ \A i \in SectionLines(Doc, cTextHtml) :
               /\ IsBodyPart(Doc, i, cTextHtml, msg.bodyHTML)
               /\ \A k \in SectionLines(Doc, cTextPlain) : i < k
        /\ \A i \in SectionLines(Doc, cTextPlain) :
               IsBodyPart(Doc, i, cTextPlain, msg.body)
        /\ LET after == AfterLine(BodySectionEnd(Doc),
                                  <<45, 45>> \o Doc.altBoundary \o <<45, 45>>)
           IN  \/ OccursAt(Doc.eml, after,
                           <<13, 10, 45, 45>> \o Doc.topBoundary \o <<13, 10>>)
               \/ OccursAt(Doc.eml, after,
                           <<45, 45>> \o Doc.topBoundary \o <<45, 45, 13, 10>>)

\* C14, the message without any body: the first part opened under the top
\* boundary, if there is one, is an attachment's.
C14_NoBodyNoSection ==
    (Composed /\ ~HasBody(msg)) =>
        \A i \in LinesEqual(Doc.eml, <<45, 45>> \o Doc.topBoundary) :
            i = BodySectionStart(Doc) =>
                LET j == AfterLine(i, <<45, 45>> \o Doc.topBoundary)
                IN  OccursAt(Doc.eml, j, cMessageRfc822)
                    \/ OccursAt(Doc.eml, j, cOctetStreamName)

\* C14 over both kinds of message
C14_BodySection == C14_BodySectionOrder /\ C14_NoBodyNoSection

\* a composed message with both bodies and an attachment after them
C14_Witness ==
    /\ Composed
    /\ msg.bodyHTML # <<>>
    /\ msg.body # <<>>
    /\ Len(msg.attachments) = 1

\* the positions where a CRLF-terminated line of the document starts
CRLFLineStarts(text) ==
    {1} \cup {i + 2 : i \in {j \in 1..(Len(text) - 2) : text[j] = 13 /\ text[j + 1] = 10}}

\* the lines of the top-level header block: the CRLF-terminated lines before
\* the first empty line or boundary marker
TopHeaderStarts(text) ==
    LET stops == {i \in CRLFLineStarts(text) :
                     OccursAt(text, i, <<13, 10>>) \/ OccursAt(text, i, <<45, 45>>)}
        stop  == IF stops = {} THEN Len(text) + 1 ELSE First(stops)
    IN  {i \in CRLFLineStarts(text) : i < stop}

\* the k-th smallest position of S
Nth(S, k) == CHOOSE i \in S : Cardinality({j \in S : j < i}) = k - 1

\* the name of the header line that starts at i: the text before its colon
HeaderName(text, i) ==
    LET stops == {j \in i..Len(text) : text[j] = 58 \/ text[j] = 13}
        stop  == IF stops = {} THEN Len(text) + 1 ELSE First(stops)
    IN  SubSeq(text, i, stop - 1)

\* the names of the top-level headers in the order they stand in
TopHeaderNames(text) ==
    [k \in 1..Cardinality(TopHeaderStarts(text)) |->
        HeaderName(text, Nth(TopHeaderStarts(text), k))]

cFrom == <<70, 114, 111, 109>>
cTo == <<84, 111>>
cCc == <<67, 99>>
cBcc == <<66, 99, 99>>
cSubject == <<83, 117, 98, 106, 101, 99, 116>>
cDate == <<68, 97, 116, 101>>
cMessageID == <<77, 101, 115, 115, 97, 103, 101, 45, 73, 68>>
cContentType == <<67, 111, 110, 116, 101, 110, 116, 45, 84, 121, 112, 101>>
cMimeVersion == <<77, 73, 77, 69, 45, 86, 101, 114, 115, 105, 111, 110>>

HasRole(m, role) == \E k \in 1..Len(m.recipients) : m.recipients[k].recipientType = role

\* the header names the claim lists for a message and its options
ExpectedHeaderNames(m, o) ==
    <<cFrom, cTo>>
    \o (IF HasRole(m, 2) THEN <<cCc>> ELSE <<>>)
    \o (IF HasRole(m, 3) THEN <<cBcc>> ELSE <<>>)
    \o <<cSubject, cDate>>
    \o (IF o.messageId # <<>> THEN <<cMessageID>> ELSE <<>>)
    \o <<cContentType, cMimeVersion>>

\* C15: the top-level headers of every composed document are, in this order,
\* From, To, Cc (if there is a Cc recipient), Bcc (if there is a Bcc
\* recipient), Subject, Date, Message-ID (if options.messageId is given),
\* Content-Type (multipart/mixed with the top boundary), MIME-Version, and
\* no other.
C15_HeaderOrder ==
    Composed =>
        /\ TopHeaderNames(Doc.eml) = ExpectedHeaderNames(msg, opts)
        /\ LinesEqual(Doc.eml, cMultipartMixed \o Doc.topBoundary \o <<34>>)
               \cap TopHeaderStarts(Doc.eml) # {}

\* no CR or LF in a recipient's name or address
PlainText(text) == \A i \in 1..Len(text) : text[i] # 13 /\ text[i] # 10

PlainRecipients(m) ==
    \A k \in 1..Len(m.recipients) :
        PlainText(m.recipients[k].displayName) /\ PlainText(m.recipients[k].emailAddress)

\* the order of C15 for the messages whose recipients hold no CR or LF and
\* whose top boundary the encoder leaves as it is
C15_HeaderOrderPlain ==
    (Composed /\ PlainRecipients(msg) /\ encodeIfNeeded(Doc.topBoundary) = Doc.topBoundary)
        => C15_HeaderOrder

\* a person as the claim formats it
QuotedPerson(name, mail) ==
    IF name # <<>> /\ mail # <<>> THEN <<34>> \o name \o <<34, 32, 60>> \o mail \o <<62>>
    ELSE IF name # <<>> THEN name
    ELSE IF mail # <<>> THEN <<60>> \o mail \o <<62>>
    ELSE <<>>

\* a person as the writer formats it: no double quotes, the name and a
\* lone address as encoded words when they leave the safe set
UnquotedPerson(name, mail) ==
    IF name # <<>> /\ mail # <<>>
      THEN encodeIfNeeded(name) \o <<32, 60>> \o mail \o <<62>>
    ELSE IF name # <<>> THEN encodeIfNeeded(name)
    ELSE IF mail # <<>> THEN <<60>> \o encodeIfNeeded(mail) \o <<62>>
    ELSE <<>>

\* the recipients of a role, formatted and joined by ", "
RECURSIVE PersonList(_, _, _, _)
PersonList(Format(_, _), recipients, role, first) ==
    IF recipients = <<>> THEN <<>>
    ELSE IF Head(recipients).recipientType # role
      THEN PersonList(Format, Tail(recipients), role, first)
    ELSE (IF first THEN <<>> ELSE <<44, 32>>)
         \o Format(Head(recipients).displayName, Head(recipients).emailAddress)
         \o PersonList(Format, Tail(recipients), role, FALSE)

\* the person headers of the document under a format: From with the
\* sender, To, Cc and Bcc with their recipients, no Cc or Bcc line for an
\* empty list
PersonHeaders(Format(_, _)) ==
    /\ LinesEqual(Doc.eml, cFrom \o <<58, 32>>
                           \o Format(msg.senderName, msg.senderEmailAddress)) # {}
    /\ HasRole(msg, 1) =>
           LinesEqual(Doc.eml, cTo \o <<58, 32>>
                               \o PersonList(Format, msg.recipients, 1, TRUE)) # {}
    /\ IF HasRole(msg, 2)
         THEN LinesEqual(Doc.eml, cCc \o <<58, 32>>
                                  \o PersonList(Format, msg.recipients, 2, TRUE)) # {}
         ELSE \A i \in TopHeaderStarts(Doc.eml) : HeaderName(Doc.eml, i) # cCc
    /\ IF HasRole(msg, 3)
         THEN LinesEqual(Doc.eml, cBcc \o <<58, 32>>
                                  \o PersonList(Format, msg.recipients, 3, TRUE)) # {}
         ELSE \A i \in TopHeaderStarts(Doc.eml) : HeaderName(Doc.eml, i) # cBcc

\* C16: from/to/cc/bcc write a person as "Name" <email> when both are
\* present, as the name when only the name is, as <email> when only the
\* address is; cc and bcc write nothing for an empty list.
C16_QuotedPersons == Composed => PersonHeaders(QuotedPerson)

\* C16 for the persons with one field only
C16_SingleFieldPersons ==
    (Composed /\ \A k \in 1..Len(msg.recipients) :
                    msg.recipients[k].displayName = <<>>
                    \/ msg.recipients[k].emailAddress = <<>>)
        => /\ HasRole(msg, 2) =>
                  LinesEqual(Doc.eml, cCc \o <<58, 32>>
                                      \o PersonList(QuotedPerson, msg.recipients, 2, TRUE)) # {}
           /\ HasRole(msg, 3) =>
                  LinesEqual(Doc.eml, cBcc \o <<58, 32>>
                                      \o PersonList(QuotedPerson, msg.recipients, 3, TRUE)) # {}

\* what the writer does
C16_UnquotedPersons == Composed => PersonHeaders(UnquotedPerson)

(***************************************************************************)
(* Properties of the vCard conversion (SpecCard).                          *)
(***************************************************************************)
\* the lines of the vCard the call returned
CardLines ==
    IF card.result = <<>> THEN <<>> ELSE SplitAtLF(card.result, 1, Len(card.result))

\* "BEGIN:VCARD"
cBeginVcard ==
    <<66, 69, 71, 73, 78, 58, 86, 67, 65, 82, 68>>

\* "VERSION:2.1"
cVersion21 ==
    <<86, 69, 82, 83, 73, 79, 78, 58, 50, 46, 49>>

\* "END:VCARD"
cEndVcard ==
    <<69, 78, 68, 58, 86, 67, 65, 82, 68>>

\* "FN:"
cFnColon ==
    <<70, 78, 58>>

\* "N:;;;;"
cEmptyN ==
    <<78, 58, 59, 59, 59, 59>>

\* "X-MS-N-YOMI:;"
cEmptyYomi ==
    <<88, 45, 77, 83, 45, 78, 45, 89, 79, 77, 73, 58, 59>>

\* "ORG:;"
cEmptyOrg ==
    <<79, 82, 71, 58, 59>>

\* "ADR;WORK;PREF:;;;;"
cEmptyAdr ==
    <<65, 68, 82, 59, 87, 79, 82, 75, 59, 80, 82, 69, 70, 58, 59, 59, 59, 59>>

\* the contact has a display name without CR, LF or tab and nothing else
OnlyDisplayName ==
    /\ card.called
    /\ card.source.displayName # <<>>
    /\ \A i \in 1..Len(card.source.displayName[1]) :
          card.source.displayName[1][i] \notin {9, 10, 13}
    /\ \A f \in ContactFields \ {"displayName"} : card.source[f] = <<>>

\* C12: a contact with only a display name set yields exactly four lines:
\* BEGIN:VCARD, VERSION:2.1, FN: with the name, END:VCARD.
C12_FourLines ==
    OnlyDisplayName =>
        CardLines = <<cBeginVcard, cVersion21,
                      cFnColon \o card.source.displayName[1], cEndVcard>>

\* C12, as the code behaves: the four properties whose provider returns an
\* array are emitted with empty components, so the vCard has eight lines.
C12_EightLines ==
    OnlyDisplayName =>
        CardLines = <<cBeginVcard, cVersion21, cEmptyN,
                      cFnColon \o card.source.displayName[1],
                      cEmptyYomi, cEmptyOrg, cEmptyAdr, cEndVcard>>

C12_Witness ==
    /\ OnlyDisplayName
    /\ Len(CardLines) = 8

Tag2(a, b) == a \o <<59>> \o b

Tag3(a, b, c) == a \o <<59>> \o b \o <<59>> \o c

\* the tags in the order the claim fixes
FixedOrder ==
    <<vTag.BEGIN, vTag.VERSION, vTag.N, vTag.FN, vTag.XMsNYomi, vTag.ORG, vTag.XMsOrgYomi, vTag.TITLE,
      Tag3(vTag.TEL, vTag.WORK, vTag.VOICE), Tag3(vTag.TEL, vTag.HOME, vTag.VOICE),
      Tag3(vTag.TEL, vTag.CELL, vTag.VOICE), Tag3(vTag.TEL, vTag.WORK, vTag.FAX),
      Tag3(vTag.ADR, vTag.WORK, vTag.PREF), Tag3(vTag.LABEL, vTag.WORK, vTag.PREF),
      Tag2(vTag.URL, vTag.WORK), Tag3(vTag.EMAIL, vTag.PREF, vTag.INTERNET), vTag.END>>

\* the text of a line before its first colon, the whole line if it has none
BeforeColon(line) ==
    LET colons == {i \in 1..Len(line) : line[i] = 58}
    IN  IF colons = {} THEN line
        ELSE SubSeq(line, 1, (CHOOSE i \in colons : \A k \in colons : i <= k) - 1)

\* the tag of a line, without the encoding qualifier
TagOf(line) ==
    LET head == BeforeColon(line)
    IN  IF EndsWith(head, vQuoted.QuotedPrintable)
          THEN SubSeq(head, 1, Len(head) - Len(vQuoted.QuotedPrintable))
          ELSE head

\* the places of a tag in the fixed order
PlacesOf(tag) == {k \in 1..Len(FixedOrder) : FixedOrder[k] = tag}

\* C19: the lines of a vCard follow the fixed order of the properties,
\* whichever subset is emitted; BEGIN:VCARD is the first line, VERSION:2.1
\* the second and END:VCARD the last.
C19_FixedOrder ==
    card.called =>
        LET lines  == CardLines
            places == [i \in 1..Len(lines) |-> PlacesOf(TagOf(lines[i]))]
        IN  /\ Len(lines) >= 3
            /\ lines[1] = cBeginVcard
            /\ lines[2] = cVersion21
            /\ lines[Len(lines)] = cEndVcard
            /\ \A i \in 1..Len(lines) : places[i] # {}
            /\ \A i \in 1..(Len(lines) - 1) :
                  \A a \in places[i] : \A b \in places[i + 1] : a < b

\* a contact with a display name and an address, two properties that are far
\* apart in the order, has been converted
C19_Witness ==
    /\ card.called
    /\ card.source.displayName # <<>>
    /\ card.source.email1EmailAddress # <<>>
    /\ Len(CardLines) = 9

\* one character of a value as the vCard shows it
QpChar(c) ==
    IF c = 9 THEN <<61, 48, 57>>
    ELSE IF c = 13 THEN <<61, 48, 68>>
    ELSE IF c = 10 THEN <<61, 48, 65>>
    ELSE <<c>>

RECURSIVE QpText(_)
QpText(text) == IF text = <<>> THEN <<>> ELSE QpChar(Head(text)) \o QpText(Tail(text))

\* the vLines convertVLines was given whose value is defined
DefinedVLines == SelectSeq(vLinesOf(card.source), LAMBDA vLine : vLine[2] # <<>>)

\* the line a vLine is expected to occupy
ExpectedLine(vLine) ==
    LET tag   == toText(vLine[1])
        value == toText(vLine[2][1])
    IN  IF \E i \in 1..Len(value) : value[i] \in {9, 10, 13}
          THEN tag \o vQuoted.QuotedPrintable \o <<58>> \o QpText(value)
          ELSE tag \o <<58>> \o value

\* C20: a value with a CR, LF or tab is emitted with these replaced by =0D,
\* =0A and =09 and the tag extended by ;ENCODING=QUOTED-PRINTABLE, any other
\* value and tag unchanged; every property occupies exactly one line, the
\* lines are joined by one LF, without any CR and without a trailing newline.
C20_QuotedPrintable ==
    card.called =>
        LET lines   == CardLines
            defined == DefinedVLines
        IN  /\ Len(lines) = Len(defined)
            /\ \A i \in 1..Len(lines) : lines[i] = ExpectedLine(defined[i])
            /\ \A i \in 1..Len(card.result) : card.result[i] \notin {9, 13}
            /\ \A i \in 1..Len(lines) : lines[i] # <<>>
            /\ card.result # <<>>
            /\ card.result[Len(card.result)] # 10

\* a value with CR, LF and tab has been emitted
C20_Witness ==
    /\ card.called
    /\ \E f \in ContactFields :
          /\ card.source[f] # <<>>
          /\ \E i \in 1..Len(card.source[f][1]) : card.source[f][1][i] = 13
    /\ Occurrences(card.result, vQuoted.QuotedPrintable \o <<58>>) # {}
    /\ Occurrences(card.result, <<61, 48, 68, 61, 48, 65, 61, 48, 57>>) # {}

(***************************************************************************)
(* Properties of a failing composition (SpecTask).                         *)
(***************************************************************************)
\* the call has settled
Settled == task.outcome # <<>>

Rejected == Settled /\ task.outcome[1].kind = "rejected"

Resolved == Settled /\ task.outcome[1].kind = "resolved"

WriteSteps == {"headers", "body", "parts", "end"}

\* C17: a throw of a formatting step reaches the caller as one "composition
\* failed" error that wraps what was thrown; a read failure reaches the
\* caller unchanged.
C17_CompositionFailed ==
    Rejected =>
        LET error == task.outcome[1].error[1]
        IN  \/ error.cause = <<>> /\ error.step = "read"
            \/ /\ error.name = "EML composition failed."
               /\ error.cause # <<>>
               /\ error.cause[1].step \in WriteSteps

\* C17, as the code behaves: the caller gets what was thrown, whichever step
\* threw it and at whatever depth, never wrapped.
C17_Unchanged ==
    Rejected =>
        LET error == task.outcome[1].error[1]
        IN  /\ error.cause = <<>>
            /\ error.name = (IF error.step = "read" THEN "ReadError" ELSE "TypeError")
            /\ error.name # "EML composition failed."

\* a formatting step of the outermost call threw and the call has settled
C17_Witness ==
    /\ Rejected
    /\ task.outcome[1].error[1].step = "body"
    /\ task.outcome[1].error[1].depth = 1

\* C18: a composition in which a step threw, at any depth, rejects and gives
\* the caller no text at all; a composition that resolves gives the whole
\* document.
C18_NoPartialOutput ==
    Settled =>
        /\ task.stack = <<>>
        /\ task.failed => Rejected /\ task.outcome[1].value = <<>>
        /\ Resolved => /\ ~task.failed
                       /\ task.outcome[1].value = <<toEmlStringFrom(opts, msg, now, 0).eml>>

\* the composition of an embedded message failed after its headers were
\* written, and the call has settled
C18_Witness ==
    /\ Rejected
    /\ task.failed
    /\ task.outcome[1].error[1].depth >= 2
    /\ task.outcome[1].error[1].step \in {"body", "parts", "end"}

(***************************************************************************)
(* Properties of the padding (SpecB64).                                    *)
(***************************************************************************)
\* the base64 text a drained generator yielded, without its line breaks
B64Text == StripLineBreaks(Concat(gen.yielded))

\* how many "=" the text holds
PadCount(text) == Cardinality({i \in 1..Len(text) : text[i] = 61})

\* C24 as stated: one "=" pads a final group of 1 remaining byte, two "="
\* pad a final group of 2 remaining bytes, in wrapped and no-wrap mode alike,
\* and a length that is a multiple of 3 gets no padding.
C24_PaddingAsStated ==
    gen.done =>
        PadCount(B64Text) = (IF Len(gen.bytes) % 3 = 1 THEN 1
                             ELSE IF Len(gen.bytes) % 3 = 2 THEN 2 ELSE 0)

\* C24 amended: two "=" pad a final group of 1 remaining byte, one "=" pads
\* a final group of 2 remaining bytes, in wrapped and no-wrap mode alike; the
\* padding ends the text, and a length that is a multiple of 3 gets none.
C24_Padding ==
    gen.done =>
        LET text == B64Text
            pads == IF Len(gen.bytes) % 3 = 1 THEN 2
                    ELSE IF Len(gen.bytes) % 3 = 2 THEN 1 ELSE 0
        IN  /\ PadCount(text) = pads
            /\ Len(text) = 4 * ((Len(gen.bytes) + 2) \div 3)
            /\ \A i \in 1..Len(text) : text[i] = 61 <=> i > Len(text) - pads

\* a drained no-wrap generator whose input left one byte for the final group
C24_Witness ==
    /\ gen.done
    /\ gen.cut = 0
    /\ Len(gen.bytes) > 3
    /\ Len(gen.bytes) % 3 = 1

\* a drained wrapping generator whose input left two bytes for the final group
C24_WitnessWrapped ==
    /\ gen.done
    /\ gen.cut = 3
    /\ Len(gen.bytes) > 3
    /\ Len(gen.bytes) % 3 = 2

(***************************************************************************)
(* Properties of the header values (SpecEml).                              *)
(***************************************************************************)
\* a person with every field passed through the encoder
EncodedPerson(name, mail) ==
    IF name # <<>> /\ mail # <<>>
      THEN encodeIfNeeded(name) \o <<32, 60>> \o encodeIfNeeded(mail) \o <<62>>
    ELSE IF name # <<>> THEN encodeIfNeeded(name)
    ELSE IF mail # <<>> THEN <<60>> \o encodeIfNeeded(mail) \o <<62>>
    ELSE <<>>

\* "Content-ID: <"
cContentIdOpen ==
    <<67, 111, 110, 116, 101, 110, 116, 45, 73, 68, 58, 32, 60>>

\* the Subject, Date, Message-ID and Content-ID values stand in the document
\* as the encoder returns them
OtherValuesEncoded ==
    /\ LinesEqual(Doc.eml, cSubject \o <<58, 32>> \o encodeIfNeeded(msg.subject)) # {}
    /\ LinesEqual(Doc.eml, cDate \o <<58, 32>>
                           \o encodeIfNeeded(DateToString(DateOf(msg, runs[1].clock)))) # {}
    /\ opts.messageId # <<>> =>
           LinesEqual(Doc.eml, cMessageID \o <<58, 32>> \o encodeIfNeeded(opts.messageId)) # {}
    /\ \A k \in 1..Len(msg.attachments) :
           msg.attachments[k].contentId # <<>> =>
               LinesEqual(Doc.eml, cContentIdOpen
                                   \o encodeIfNeeded(msg.attachments[k].contentId)
                                   \o <<62>>) # {}

\* C23: every value written through from, to, cc, bcc, subject, date,
\* messageId and contentId, the names and the addresses of the sender and of
\* the recipients included, has been passed through the encoded-word encoder.
C23_AllEncoded == Composed => PersonHeaders(EncodedPerson) /\ OtherValuesEncoded

\* C23, as the code behaves: the address of a person who has a name too is
\* written as it is; every other value is passed through the encoder.
C23_AddressRaw == Composed => PersonHeaders(UnquotedPerson) /\ OtherValuesEncoded

\* a recipient with a name and an address the encoder would change has been
\* written
C23_Witness ==
    /\ Composed
    /\ \E k \in 1..Len(msg.recipients) :
          /\ msg.recipients[k].displayName # <<>>
          /\ msg.recipients[k].emailAddress # <<>>
          /\ encodeIfNeeded(msg.recipients[k].emailAddress) # msg.recipients[k].emailAddress

(***************************************************************************)
(* Properties of the recipient headers (SpecEml).                          *)
(***************************************************************************)
\* the top-level header lines of a name
HeadersNamed(name) ==
    {i \in TopHeaderStarts(Doc.eml) : OccursAt(Doc.eml, i, name \o <<58, 32>>)}

\* the header of a role holds the recipients of the role, and only them, in
\* their input order, joined by ", "; there is one such header, or none for a
\* role without recipients (To then holds the fallback label)
RoleHeader(name, role) ==
    IF HasRole(msg, role)
      THEN /\ Cardinality(HeadersNamed(name)) = 1
           /\ HeadersNamed(name) \subseteq
                  LinesEqual(Doc.eml, name \o <<58, 32>>
                                      \o PersonList(UnquotedPerson, msg.recipients, role, TRUE))
    ELSE IF role = 1
      THEN /\ Cardinality(HeadersNamed(name)) = 1
           /\ HeadersNamed(name) \subseteq LinesEqual(Doc.eml, name \o <<58, 32>> \o cFallbackLabel)
    ELSE HeadersNamed(name) = {}

\* C27: the recipients are partitioned by role: the To, the Cc and the Bcc
\* header each hold exactly the recipients tagged with their role, once, in
\* input order, separated by a comma and a space.
C27_Partition ==
    Composed => RoleHeader(cTo, 1) /\ RoleHeader(cCc, 2) /\ RoleHeader(cBcc, 3)

\* two recipients of one role have been written, or two of different roles
C27_Witness ==
    /\ Composed
    /\ Len(msg.recipients) = 2
    /\ msg.recipients[1] # msg.recipients[2]
    /\ msg.recipients[1].recipientType = msg.recipients[2].recipientType

C27_WitnessRoles ==
    /\ Composed
    /\ Len(msg.recipients) = 2
    /\ msg.recipients[1].recipientType = 3
    /\ msg.recipients[2].recipientType = 1

(***************************************************************************)
(* Properties of the empty line after a header block (SpecEml).            *)
(***************************************************************************)
\* "Content-"
cContentDash ==
    <<67, 111, 110, 116, 101, 110, 116, 45>>

\* "MIME-Version: "
cMimeVersionColon ==
    <<77, 73, 77, 69, 45, 86, 101, 114, 115, 105, 111, 110, 58, 32>>

\* the lines of the MIME headers: the last lines of every header block
MimeHeaderStarts(text) ==
    {i \in CRLFLineStarts(text) :
        OccursAt(text, i, cContentDash) \/ OccursAt(text, i, cMimeVersionColon)}

\* the position where the line after the one starting at i starts
NextLineStart(text, i) == First({j \in CRLFLineStarts(text) : j > i})

\* after every MIME header line comes another line of the header block or an
\* empty line; MIME-Version, which ends the top-level block, is followed by
\* an empty line
BlankLineAfterHeaders(text) ==
    \A i \in MimeHeaderStarts(text) :
        LET next == NextLineStart(text, i)
        IN  \/ OccursAt(text, next, <<13, 10>>)
            \/ /\ OccursAt(text, next, cContentDash)
               /\ ~OccursAt(text, i, cMimeVersionColon)
            \/ /\ OccursAt(text, next, cMimeVersionColon)
               /\ ~OccursAt(text, i, cMimeVersionColon)

\* C29: in every composed document each header block is followed by an empty
\* line: the top-level block that ends with MIME-Version before the first
\* boundary line, also for a message with no body and no attachments, and
\* every part's header block before the part's content.
C29_BlankLine == Composed => BlankLineAfterHeaders(Doc.eml)

\* C29 for the messages that have a body or an attachment
C29_BlankLineWithParts ==
    (Composed /\ (HasBody(msg) \/ msg.attachments # <<>>)) => BlankLineAfterHeaders(Doc.eml)

\* a message with no body and no attachments has been composed
C29_Witness ==
    /\ Composed
    /\ ~HasBody(msg)
    /\ msg.attachments = <<>>
    /\ EndsWith(Doc.eml, cMimeVersionColon \o <<49, 46, 48, 13, 10, 45, 45>>
                         \o Doc.topBoundary \o <<45, 45, 13, 10>>)

(***************************************************************************)
(* Properties of the boundary parameter (SpecEml).                         *)
(***************************************************************************)
\* the Content-Type header of the top level names the top boundary as the
\* delimiter lines spell it, and so does the header of the body section
\* for the alternative boundary
BoundaryParameters ==
    /\ LinesEqual(Doc.eml, cMultipartMixed \o Doc.topBoundary \o <<34>>)
           \cap TopHeaderStarts(Doc.eml) # {}
    /\ EndsWith(Doc.eml, <<45, 45>> \o Doc.topBoundary \o <<45, 45, 13, 10>>)
    /\ HasBody(msg) =>
           /\ LinesEqual(Doc.eml, cMultipartMixed \o Doc.altBoundary \o <<34>>) # {}
           /\ LinesEqual(Doc.eml, <<45, 45>> \o Doc.altBoundary) # {}
           /\ LinesEqual(Doc.eml, <<45, 45>> \o Doc.altBoundary \o <<45, 45>>) # {}

\* C28: for every boundary, fixed through the options or generated, the
\* boundary parameter of the Content-Type header is character for character
\* the string of the delimiter lines.
C28_SameBoundary == Composed => BoundaryParameters

\* C28 for the boundaries the encoder leaves as they are, the generated ones
\* among them
C28_SameSafeBoundary ==
    (Composed /\ encodeIfNeeded(Doc.topBoundary) = Doc.topBoundary
              /\ encodeIfNeeded(Doc.altBoundary) = Doc.altBoundary)
        => BoundaryParameters

\* a message with a body has been composed with fixed boundaries that hold a
\* dot
C28_Witness ==
    /\ Composed
    /\ HasBody(msg)
    /\ Doc.topBoundary = <<98, 46, 49>>
    /\ Doc.altBoundary = <<98, 46, 50>>

\* a message with a body has been composed with generated boundaries
C28_WitnessGenerated ==
    /\ Composed
    /\ HasBody(msg)
    /\ opts.baseBoundary = <<>>
    /\ opts.altBoundary = <<>>
    /\ Doc.topBoundary # Doc.altBoundary

(***************************************************************************)
(* C25: embedded messages are composed depth-first, one after the other    *)
(***************************************************************************)
\* the text a composed embedded message left in the list of the attachments
RefinedText(refined) ==
    IF refined.content # <<>> THEN refined.content[1] ELSE refined.nestedMail

\* a call is where the source's loops allow it to be: it refined the
\* attachments before x in their order, every embedded message among them
\* is there as a whole document closed by its last boundary line, and it has
\* written no chunk before the last attachment was refined
InOrder(frame) ==
    /\ Len(frame.attachmentsRefined) = frame.x
    /\ \A k \in 1..frame.x :
          frame.email.attachments[k].embedded # <<>> =>
              EndsWith(RefinedText(frame.attachmentsRefined[k]), <<45, 45, 13, 10>>)
    /\ frame.chunks # <<>> =>
          /\ frame.x = Len(frame.email.attachments)
          /\ Len(frame.recipients) = Len(frame.email.recipients)

C25_WitnessResumed ==
    /\ Len(task.stack) = 1
    /\ Top.chunks # <<>>
    /\ \E k \in 1..Top.x : Top.email.attachments[k].embedded # <<>>

(***************************************************************************)
(* C26: two compositions in progress at once do not touch each other       *)
(***************************************************************************)
FixedBoundaries(options) == options.baseBoundary # <<>> /\ options.altBoundary # <<>>

\* what a call returns when it is the only call: the whole function applied
\* to its arguments
Alone(call) == toEmlStringFrom(call.options, call.email, now, 0).eml

\* C26: whichever way the steps of two calls in progress are interleaved, a
\* call with both boundaries fixed returns the text it returns when it runs
\* alone, and while it runs its chunks are the beginning of that text.
C26_Independent ==
    \A i \in 1..2 :
        LET call == pair.calls[i]
        IN  FixedBoundaries(call.options) =>
              LET alone == Alone(call)
              IN  /\ call.outcome # <<>> => call.outcome[1] = alone
                  /\ call.stack # <<>> =>
                        LET written == Concat(call.stack[1].chunks)
                        IN  written = SubSeq(alone, 1, Len(written))

\* without fixed boundaries the text depends on the identifiers the other
\* call took: not a property of the code
C26_IndependentAnyBoundary ==
    \A i \in 1..2 :
        pair.calls[i].outcome # <<>> => pair.calls[i].outcome[1] = Alone(pair.calls[i])

\* both calls returned, each with fixed boundaries and an attachment, their
\* texts differ, and for a while both were writing
C26_Witness ==
    /\ pair.calls # <<>>
    /\ pair.overlap
    /\ \A i \in 1..2 : pair.calls[i].outcome # <<>> /\ FixedBoundaries(pair.calls[i].options)
    /\ pair.calls[1].outcome # pair.calls[2].outcome
    /\ pair.calls[1].email.attachments # <<>>
    /\ pair.calls[2].email.attachments # <<>>

\* both calls are writing at the same time, the first inside an embedded
\* message
C26_WitnessInterleaved ==
    /\ pair.calls # <<>>
    /\ Len(pair.calls[1].stack) = 2
    /\ Writing(pair.calls[1])
    /\ Writing(pair.calls[2])
    /\ \A i \in 1..2 : FixedBoundaries(pair.calls[i].options)

(***************************************************************************)
(* C21, C22, C30: the tree of a store                                      *)
(***************************************************************************)
\* the calls of op made on the root (on = <<>>) or on a folder
CallsOf(op, on) ==
    {k \in 1..Len(tree.log) : tree.log[k].op = op /\ tree.log[k].on = on}

\* the calls on folders
FolderCalls(op) == {k \in 1..Len(tree.log) : tree.log[k].op = op /\ tree.log[k].on # <<>>}

C21_WitnessNoContent ==
    \E i \in FolderCalls("items") :
        /\ tree.log[i].on[1].contentCount = 0
        /\ tree.log[i].on[1].emails # <<>>

\* the folders a walk can get to: a folder and, when it reports subfolders,
\* the folders below it
RECURSIVE ReportedBelow(_)
ReportedBelow(folder) ==
    {folder} \cup (IF folder.hasSubfolders
                     THEN UNION {ReportedBelow(folder.subFolders[k]) :
                                    k \in DOMAIN folder.subFolders}
                   ELSE {})

\* how many tokens of a walk are of a kind and about a node
TokensFor(tokens, kind, id) ==
    Cardinality({k \in 1..Len(tokens) : tokens[k].t = kind /\ tokens[k].id = id})

TokensOf(tokens, kind) == Cardinality({k \in 1..Len(tokens) : tokens[k].t = kind})

\* the walk opened the root and every reported folder once, met every item of
\* a reported folder with content once, and nothing else
VisitsOnce(tokens, root) ==
    LET folders == ReportedBelow(root)
        items   == UNION {IF 1 <= f.contentCount THEN Range(f.emails) ELSE {} : f \in folders}
    IN  /\ TokensFor(tokens, "[", 0) = 1
        /\ \A f \in folders : TokensFor(tokens, "[", f.primaryNodeId) = 1
        /\ \A item \in items : TokensFor(tokens, "E", item.primaryNodeId) = 1
        /\ TokensOf(tokens, "[") = 1 + Cardinality(folders)
        /\ TokensOf(tokens, "E") = Cardinality(items)
        /\ TokensOf(tokens, "]") = TokensOf(tokens, "[")

\* C22: while the root is open, items() on it returns an empty list and
\* subFolders() on it returns one wrapper, of the store's root folder;
\* subFolders() on a folder returns its children in their order, and nothing
\* when the folder reports no subfolders; a walk from the root opens every
\* folder the wrappers report once and meets each of their items once.
C22_Tree ==
    LET log == tree.log
    IN  /\ \A i \in 1..Len(log) :
              (log[i].on = <<>> /\ CallsOf("close", <<>>) \cap 1..i = {}) => log[i].ok
        /\ \A i \in CallsOf("items", <<>>) : log[i].ok => log[i].value[1] = <<>>
        /\ \A i \in CallsOf("subFolders", <<>>) :
              log[i].ok => /\ Len(log[i].value[1]) = 1
                           /\ log[i].value[1][1] = TheStore.root
        /\ \A i \in FolderCalls("subFolders") :
              LET folder == log[i].on[1]
                  list   == log[i].value[1]
              IN  /\ ~folder.hasSubfolders => list = <<>>
                  /\ folder.hasSubfolders =>
                        /\ Len(list) = Len(folder.subFolders)
                        /\ \A k \in 1..Len(list) : list[k] = folder.subFolders[k]
        /\ \A i \in CallsOf("walk", <<>>) :
              log[i].ok => VisitsOnce(log[i].value[1], TheStore.root)

\* the open root gave its one folder, that folder gave its two children, and
\* a walk went through the store that is three folders deep
C22_Witness ==
    /\ \E i \in CallsOf("subFolders", <<>>) : tree.log[i].ok
    /\ \E i \in CallsOf("items", <<>>) : tree.log[i].ok
    /\ \E i \in CallsOf("walk", <<>>) :
          tree.log[i].ok /\ TokensOf(tree.log[i].value[1], "[") = 4
                         /\ TokensOf(tree.log[i].value[1], "E") = 2

\* subFolders() on a folder with two children
C22_WitnessChildren ==
    \E i \in FolderCalls("subFolders") : Len(tree.log[i].value[1]) = 2

\* the root members other than close()
RootMembers == {"displayName", "primaryNodeId", "subFolders", "items"}

\* every call after a close() on the root: a member fails with the error of
\* a disposed object, a close() returns; the file was closed once
C30_AfterClose ==
    LET log == tree.log
    IN  /\ tree.closes <= 1
        /\ tree.closed <=> CallsOf("close", <<>>) # {}
        /\ tree.closed <=> tree.closes = 1
        /\ \A i \in CallsOf("close", <<>>) :
              /\ log[i].ok
              /\ \A j \in (i + 1)..Len(log) :
                    (log[j].on = <<>> /\ log[j].op \in RootMembers) =>
                        /\ ~log[j].ok
                        /\ log[j].error = <<Disposed>>

\* C30: in every run, after close() on a root has returned, displayName(),
\* primaryNodeId, subFolders() and items() on it fail with the error "Trying
\* to access disposed object."; close() returns every time and the file's
\* close() is called at most once; the closed flag, once set, stays set.
C30_Disposed ==
    /\ []C30_AfterClose
    /\ [][tree.closed => tree'.closed]_vars

\* close() was called twice and a member called after a close() failed
C30_Witness ==
    /\ Cardinality(CallsOf("close", <<>>)) = 2
    /\ \E i \in CallsOf("close", <<>>) :
          \E j \in (i + 1)..Len(tree.log) :
              tree.log[j].op \in RootMembers /\ ~tree.log[j].ok

====
